---- MODULE Spec2Model ----
(***************************************************************************)
(* A model of outline-sync: the local tree reader, the download and the    *)
(* upload passes, the front-matter writer, the attachment rewriting and    *)
(* the cleanup sweep.  Every subsystem has its own specification over the  *)
(* shared variables; a specification leaves the variables of the other     *)
(* subsystems at their initial value.                                      *)
(***************************************************************************)
EXTENDS Integers, Sequences, FiniteSets, TLC

VARIABLES
    fs,            \* the local file system: path -> node, a path being a sequence of names below the output directory
    tree0,         \* the file system as it was when the current operation started
    writtenPaths,  \* cleanupUnwrittenFiles / downloadCollection: the written-paths set
    sortedPaths,   \* cleanupUnwrittenFiles: the paths still to be handled, deepest first
    deletedCount,  \* cleanupUnwrittenFiles: the running count
    deletedLog,    \* the paths deleted so far, in the order of their deletion
    unremovable,   \* the paths whose unlink / rmdir is refused by the operating system
    clPc,          \* cleanupUnwrittenFiles: "idle", "sweep" or "done"
    readResult,    \* readCollectionFiles: NoResult before the call, then what it returned or threw
    updateOnly,    \* uploadCommand: options.updateOnly
    remote,        \* the documents of the collection in Outline: id -> [title, text, parentDocumentId]
    upPhase,       \* uploadCommand: "idle", "running", "finished" or "failed"
    upPass,        \* the number of uploadCommand runs started so far
    upFiles,       \* processCollectionFiles: filesToUpload
    upPc,          \* the position of each file's task: "queued" in the limiter, an API call in flight, or its outcome
    upCalls,       \* the calls made to the Outline API so far
    upCreated,     \* the documents createDocument returned so far: [pass, path, id]
    upCounts,      \* processCollectionFiles: uploadedCount, updatedCount, skippedCount, errorCount
    clock,         \* the time of the file system, in writes
    writeCount,    \* the number of fs.writeFile calls made by writeDocumentFile
    remoteDocs,    \* the document hierarchy of the collection in Outline, as getDocumentsForCollection returns it
    includeMetadata,       \* downloadCommand: !config.behavior.skipMetadata
    includeImages,         \* downloadCommand: config.behavior.includeImages
    cleanupAfterDownload,  \* downloadCommand: config.behavior.cleanupAfterDownload
    dlPc,          \* downloadCollection: "idle", "writing", "cleanup", "done" or "failed"
    dlWork,        \* the calls of writeDocumentRecursive still to be made, in their order: [doc, outputDir]
    orderCounter,  \* downloadCollection: orderCounter.lastOrder
    dlWritten,     \* the number of documents written so far
    existingDocsIndex,     \* downloadCollection: outlineId -> metadata of the local file that carries it
    dlCalls,       \* the calls of writeDocumentFile made by the pass so far: [id, outputDir, filePath, metadata]
    atBody,        \* the body of a remote document: a sequence of texts and image references
    atLocalPaths,  \* where the attachments of the body are stored: "byId", "named" or "shared"
    atLocal,       \* the body as transformMarkdownImages rewrote it
    atImages,      \* what parseRelativeImages found in the rewritten body
    atBack,        \* the body as transformMarkdownToAttachments rewrote it back
    atPc,          \* "start", "local", "parsed" or "back"
    ftParent,      \* getDocumentCollectionStructure: node -> its parent node, 0 at the top level
    ftPc,          \* buildDocumentHierarchy: node -> "waiting", "queued", "inflight", "fetched" or "failed"
    ftQueue,       \* the queue of the limiter of fetchDocument
    mcpResult,     \* the last call of a tool of the MCP server: [tool, documentUri, commands, error]
    mcpCalls       \* the number of tool calls made

cleanupVars == <<writtenPaths, sortedPaths, deletedCount, deletedLog, unremovable, clPc>>
fsVars == <<fs, tree0>>
readVars == <<readResult>>

NoCounts == [uploadedCount |-> 0, updatedCount |-> 0, skippedCount |-> 0, errorCount |-> 0]

\* No upload was started and Outline holds no document.
UploadIdle ==
    /\ updateOnly = FALSE
    /\ remote = <<>>
    /\ upPhase = "idle"
    /\ upPass = 0
    /\ upFiles = <<>>
    /\ upPc = <<>>
    /\ upCalls = {}
    /\ upCreated = {}
    /\ upCounts = NoCounts

\* No download was started and the collection has no document in Outline.
DownloadIdle ==
    /\ remoteDocs = <<>>
    /\ includeMetadata = TRUE
    /\ includeImages = FALSE
    /\ cleanupAfterDownload = FALSE
    /\ dlPc = "idle"
    /\ dlWork = <<>>
    /\ orderCounter = 1
    /\ dlWritten = 0
    /\ existingDocsIndex = <<>>
    /\ dlCalls = <<>>

\* No body is being rewritten.
AttachIdle ==
    /\ atBody = <<>>
    /\ atLocalPaths = "byId"
    /\ atLocal = <<>>
    /\ atImages = <<>>
    /\ atBack = <<>>
    /\ atPc = "start"

\* No hierarchy is being fetched.
FetchIdle == ftParent = <<>> /\ ftPc = <<>> /\ ftQueue = <<>>

\* No tool of the MCP server was called.
NoToolResult ==
    [tool |-> "none", documentUri |-> [collectionKey |-> "", documentPath |-> <<>>],
     commands |-> <<>>, error |-> "<undefined>"]

McpIdle == mcpResult = NoToolResult /\ mcpCalls = 0

\* Nothing was written yet.
WriteIdle == clock = 0 /\ writeCount = 0

\* The value of readResult before readCollectionFiles was called: no directory was listed.
NoResult == [docs |-> <<>>, walked |-> <<>>, error |-> "<undefined>"]
writeVars == <<clock, writeCount>>
attachVars == <<atBody, atLocalPaths, atLocal, atImages, atBack, atPc>>
fetchVars == <<ftParent, ftPc, ftQueue>>
mcpVars == <<mcpResult, mcpCalls>>
downloadVars == <<remoteDocs, includeMetadata, includeImages, cleanupAfterDownload, dlPc, dlWork, orderCounter, dlWritten,
                  existingDocsIndex, dlCalls>>
uploadVars == <<updateOnly, remote, upPhase, upPass, upFiles, upPc, upCalls, upCreated, upCounts>>
vars == <<fs, tree0, writtenPaths, sortedPaths, deletedCount, deletedLog, unremovable, clPc, readResult,
          updateOnly, remote, upPhase, upPass, upFiles, upPc, upCalls, upCreated, upCounts,
          clock, writeCount,
          remoteDocs, includeMetadata, includeImages, cleanupAfterDownload, dlPc, dlWork, orderCounter, dlWritten,
          existingDocsIndex, dlCalls, atBody, atLocalPaths, atLocal, atImages, atBack, atPc,
          ftParent, ftPc, ftQueue, mcpResult, mcpCalls>>

(***************************************************************************)
(* Values and paths                                                        *)
(***************************************************************************)

\* JavaScript's undefined
None == "<undefined>"

Root == <<>>

Front(s) == SubSeq(s, 1, Len(s) - 1)

Last(s) == s[Len(s)]

\* path.join(dir, name)
Join(dir, name) == Append(dir, name)

\* path.dirname
Dirname(p) == Front(p)

IsPrefix(p, q) == Len(p) <= Len(q) /\ SubSeq(q, 1, Len(p)) = p

IsProperPrefix(p, q) == Len(p) < Len(q) /\ SubSeq(q, 1, Len(p)) = p

\* The absolute path as the program prints it, the output directory being /out.
RECURSIVE PathStr(_)
PathStr(p) == IF p = Root THEN "/out" ELSE PathStr(Front(p)) \o "/" \o Last(p)

DirNode == [kind |-> "dir"]

\* A file that is no document (an image, a text file).
BlobNode == [kind |-> "file", data |-> <<>>, body |-> "", mtime |-> 0]

Exists(f, p) == p \in DOMAIN f

IsDir(f, p) == Exists(f, p) /\ f[p].kind = "dir"

IsFile(f, p) == Exists(f, p) /\ f[p].kind = "file"

\* The order in which fs.readdir lists the names of one directory.
NameOrder ==
    <<"a", "b", "c", "d", "e", "guide", "images", "index", "notes",
      ".md", "index.md", "a.md", "b.md", "c.md", "delete.md", "file.md", "guide.md", "k.md",
      "notes.md", "x.md", "n.txt", "att-123.gif", "att-123.png", "old.png">>

\* fs.readdir(dir): the names of the entries of dir
Readdir(f, dir) == SelectSeq(NameOrder, LAMBDA n : Exists(f, Join(dir, n)))

\* The file system with path p removed.
Remove(f, p) == [q \in DOMAIN f \ {p} |-> f[q]]

RECURSIVE Concat(_)
Concat(seqs) == IF seqs = <<>> THEN <<>> ELSE Head(seqs) \o Concat(Tail(seqs))

\* Array.prototype.sort / toSorted with a numeric key: a stable sort, ascending by key.
\* items is a sequence of records with a field k.
RECURSIVE InsertByKey(_, _)
InsertByKey(sorted, item) ==
    IF sorted = <<>> THEN <<item>>
    ELSE IF Last(sorted).k <= item.k THEN Append(sorted, item)
    ELSE Append(InsertByKey(Front(sorted), item), Last(sorted))

RECURSIVE StableSort(_)
StableSort(items) ==
    IF items = <<>> THEN <<>>
    ELSE InsertByKey(StableSort(Front(items)), Last(items))

(***************************************************************************)
(* readCollectionFiles (services/output-files.ts)                          *)
(***************************************************************************)

\* The names that end with ".md".
MdNames ==
    {".md", "index.md", "a.md", "b.md", "c.md", "delete.md", "file.md", "guide.md", "k.md",
     "notes.md", "x.md"}

\* name.endsWith('.md')
IsMdName(n) == n \in MdNames

Range(s) == {s[i] : i \in 1..Len(s)}

\* A document file: data is the front matter as gray-matter parses it (a record holding
\* the fields that are written in the file), body the text after it.
DocNode(data, body) == [kind |-> "file", data |-> data, body |-> body, mtime |-> 0]

\* A JavaScript string is truthy unless it is undefined or empty.
Truthy(s) == s # None /\ s # ""

Field(data, name) == IF name \in DOMAIN data THEN data[name] ELSE None

IndexNotFoundMessage(indexPath) ==
    "Index file " \o PathStr(indexPath)
        \o " not found. All subdirectories with md files must have an index.md file."

ParseFailedMessage(filePath) == "Failed to parse document file " \o PathStr(filePath)

\* documentFrontmatterSchema.parse: title is required, the other fields are optional.
SchemaAccepts(data) == "title" \in DOMAIN data

\* readDocumentFile: the parsed document, or the error it throws.
readDocumentFile(f, filePath, parentDocumentId) ==
    IF SchemaAccepts(f[filePath].data)
    THEN [error |-> None,
          doc |-> [metadata |-> f[filePath].data,
                   content |-> f[filePath].body,
                   filePath |-> PathStr(filePath),
                   relativePath |-> filePath,
                   parentDocumentId |-> parentDocumentId,
                   lastModifiedAt |-> f[filePath].mtime]]
    ELSE [error |-> ParseFailedMessage(filePath), doc |-> None]

\* a.metadata.sidebar?.order ?? 0
SortKeyMissingLast(doc) == IF "order" \in DOMAIN doc.metadata THEN doc.metadata.order ELSE 1000

SortKey(doc) == IF "order" \in DOMAIN doc.metadata THEN doc.metadata.order ELSE 0

\* parsedDocuments.toSorted(...).map((doc, index) => ({...doc, relativeIndex: index}))
SortAndIndexFromOne(parsedDocuments) ==
    LET keyed == [i \in 1..Len(parsedDocuments) |->
                     [k |-> SortKey(parsedDocuments[i]), v |-> parsedDocuments[i]]]
        sorted == StableSort(keyed)
    IN  [i \in 1..Len(sorted) |-> sorted[i].v @@ [relativeIndex |-> i]]

SortAndIndex(parsedDocuments) ==
    LET keyed == [i \in 1..Len(parsedDocuments) |->
                     [k |-> SortKey(parsedDocuments[i]), v |-> parsedDocuments[i]]]
        sorted == StableSort(keyed)
    IN  [i \in 1..Len(sorted) |-> sorted[i].v @@ [relativeIndex |-> i - 1]]

\* indexDocument.metadata.outlineId ?? indexDocument.filePath
ParentReferenceAlwaysId(indexDocument) == Field(indexDocument.metadata, "outlineId")

ParentReference(indexDocument) ==
    IF Field(indexDocument.metadata, "outlineId") # None
    THEN indexDocument.metadata.outlineId
    ELSE indexDocument.filePath

\* The check made on a subdirectory that has no index.md: does it list a name ending in .md?
MustHaveIndexNever(f, fullPath) == FALSE

MustHaveIndex(f, fullPath) == \E n \in Range(Readdir(f, fullPath)) : IsMdName(n)

\* The path named by the error thrown for a subdirectory that lacks its index.md.
MissingIndexNamesDirectory(fullPath) == IndexNotFoundMessage(fullPath)

MissingIndexError(fullPath) == IndexNotFoundMessage(Join(fullPath, "index.md"))

\* What readCollectionFilesForDirectory returns: the sorted documents of the directory,
\* then the documents found in its subdirectories.
ReturnedChildrenFirst(parsedDocuments, childrenParsedDocuments) ==
    childrenParsedDocuments \o SortAndIndex(parsedDocuments)

Returned(parsedDocuments, childrenParsedDocuments) ==
    SortAndIndex(parsedDocuments) \o childrenParsedDocuments

\* readCollectionFilesForDirectory. ReadEntries is its loop over the entries: acc holds
\* parsedDocuments, childrenParsedDocuments, the directories listed so far and the error
\* thrown, if any (after which nothing more is done).
RECURSIVE readCollectionFilesForDirectory(_, _, _), ReadEntries(_, _, _, _, _)
ReadEntries(f, dirPath, parentDocumentId, entries, acc) ==
    IF entries = <<>> \/ acc.error # None THEN acc
    ELSE
      LET name == Head(entries)
          fullPath == Join(dirPath, name)
          indexPath == Join(fullPath, "index.md")
          next ==
            IF Truthy(parentDocumentId) /\ name = "index.md" THEN acc
            ELSE IF IsDir(f, fullPath) THEN
              IF ~IsFile(f, indexPath) THEN
                IF MustHaveIndex(f, fullPath)
                THEN [acc EXCEPT !.error = MissingIndexError(fullPath),
                                 !.walked = Append(@, fullPath)]
                ELSE [acc EXCEPT !.walked = Append(@, fullPath)]
              ELSE
                LET indexDocument == readDocumentFile(f, indexPath, parentDocumentId)
                IN  IF indexDocument.error # None
                    THEN [acc EXCEPT !.error = indexDocument.error]
                    ELSE
                      LET sub == readCollectionFilesForDirectory(
                                     f, fullPath, ParentReference(indexDocument.doc))
                      IN  [parsedDocuments |-> Append(acc.parsedDocuments, indexDocument.doc),
                           childrenParsedDocuments |-> acc.childrenParsedDocuments \o sub.docs,
                           walked |-> acc.walked \o sub.walked,
                           error |-> sub.error]
            ELSE IF IsFile(f, fullPath) /\ IsMdName(name) THEN
              LET document == readDocumentFile(f, fullPath, parentDocumentId)
              IN  IF document.error # None
                  THEN [acc EXCEPT !.error = document.error]
                  ELSE [acc EXCEPT !.parsedDocuments = Append(@, document.doc)]
            ELSE acc
      IN  ReadEntries(f, dirPath, parentDocumentId, Tail(entries), next)

readCollectionFilesForDirectory(f, dirPath, parentDocumentId) ==
    IF ~IsDir(f, dirPath)
    THEN [docs |-> <<>>, walked |-> <<>>, error |-> "ENOENT: no such file or directory"]
    ELSE
      LET acc == ReadEntries(f, dirPath, parentDocumentId, Readdir(f, dirPath),
                     [parsedDocuments |-> <<>>, childrenParsedDocuments |-> <<>>,
                      walked |-> <<dirPath>>, error |-> None])
      IN  IF acc.error # None
          THEN [docs |-> <<>>, walked |-> acc.walked, error |-> acc.error]
          ELSE [docs |-> Returned(acc.parsedDocuments, acc.childrenParsedDocuments),
                walked |-> acc.walked,
                error |-> None]

\* readCollectionFiles(collection): the walk starts at the output directory with no parent.
readCollectionFiles(f) == readCollectionFilesForDirectory(f, Root, None)

(***************************************************************************)
(* The trees readCollectionFiles is checked on                             *)
(***************************************************************************)

\* Front matter with the given fields; each argument is the empty set (the field is
\* not in the file) or the set of its one value.
The(S) == CHOOSE x \in S : TRUE

FrontMatter(title, order, outlineId) ==
    (IF title # {} THEN [title |-> The(title)] ELSE <<>>)
        @@ (IF order # {} THEN [order |-> The(order)] ELSE <<>>)
        @@ (IF outlineId # {} THEN [outlineId |-> The(outlineId)] ELSE <<>>)

\* The largest sidebar.order written in the files of the trees.
MaxOrder == 2

Orders == {{}} \cup {{o} : o \in (0 - 1)..MaxOrder}

\* Every tree that takes, for each candidate in turn (parents before children), either
\* nothing or one of its nodes; a candidate is taken only inside an existing directory.
RECURSIVE TreesOver(_)
TreesOver(candidates) ==
    IF candidates = <<>> THEN {Root :> DirNode}
    ELSE LET c == Last(candidates)
             rest == TreesOver(Front(candidates))
         IN  rest \cup {t @@ (c.path :> n) : t \in {u \in rest : IsDir(u, Front(c.path))}, n \in c.nodes}

\* One directory d with its index.md and up to three documents of any order.
OrderTrees ==
    TreesOver(<<
        [path |-> <<"d">>, nodes |-> {DirNode}],
        [path |-> <<"d", "index.md">>,
         nodes |-> {DocNode(FrontMatter({"D"}, {}, id), "") : id \in {{}, {"doc-d"}}}],
        [path |-> <<"d", "a.md">>, nodes |-> {DocNode(FrontMatter({"A"}, o, {}), "") : o \in Orders}],
        [path |-> <<"d", "b.md">>, nodes |-> {DocNode(FrontMatter({"B"}, o, {}), "") : o \in Orders}],
        [path |-> <<"d", "c.md">>, nodes |-> {DocNode(FrontMatter({"C"}, o, {}), "") : o \in Orders}]
    >>)

\* Trees of three levels in which every index.md may be missing, may lack its outlineId
\* or carry an empty one, in which some documents lack their title, and in which a
\* directory without index.md may hold a document one level further down.
ShapeTrees ==
    TreesOver(<<
        [path |-> <<"index.md">>,
         nodes |-> {DocNode(FrontMatter({"Root"}, {}, id), "") : id \in {{}, {"doc-root"}}}],
        [path |-> <<"a.md">>,
         nodes |-> {DocNode(FrontMatter(t, {}, {}), "") : t \in {{}, {"A"}}}],
        [path |-> <<"c">>, nodes |-> {DirNode}],
        [path |-> <<"c", "n.txt">>, nodes |-> {BlobNode}],
        [path |-> <<"c", "e">>, nodes |-> {DirNode}],
        [path |-> <<"c", "e", "x.md">>, nodes |-> {DocNode(FrontMatter({"X"}, {}, {}), "")}],
        [path |-> <<"d">>, nodes |-> {DirNode}],
        [path |-> <<"d", "index.md">>,
         nodes |-> {DocNode(FrontMatter({"D"}, {}, id), "") : id \in {{}, {""}, {"doc-d"}}}],
        [path |-> <<"d", "a.md">>, nodes |-> {DocNode(FrontMatter({"DA"}, {}, {}), "")}],
        [path |-> <<"d", "n.txt">>, nodes |-> {BlobNode}],
        [path |-> <<"d", "e">>, nodes |-> {DirNode}],
        [path |-> <<"d", "e", "index.md">>,
         nodes |-> {DocNode(FrontMatter({"E"}, {}, id), "") : id \in {{}, {""}, {"doc-e"}}}],
        [path |-> <<"d", "e", "c.md">>,
         nodes |-> {DocNode(FrontMatter(t, {}, {}), "") : t \in {{}, {"EC"}}}]
    >>)

InitRead ==
    /\ fs \in OrderTrees \cup ShapeTrees
    /\ tree0 = fs
    /\ writtenPaths = {}
    /\ sortedPaths = <<>>
    /\ deletedCount = 0
    /\ deletedLog = <<>>
    /\ unremovable = {}
    /\ clPc = "idle"
    /\ readResult = NoResult
    /\ UploadIdle
    /\ WriteIdle
    /\ DownloadIdle
    /\ AttachIdle
    /\ FetchIdle
    /\ McpIdle

\* A call of readCollectionFiles on the collection's output directory.
ReadCollection ==
    /\ readResult = NoResult
    /\ readResult' = readCollectionFiles(fs)
    /\ UNCHANGED <<mcpVars, fsVars, cleanupVars, uploadVars, writeVars, downloadVars, attachVars, fetchVars>>

NextRead == ReadCollection

SpecRead == InitRead /\ [][NextRead]_vars

(***************************************************************************)
(* cleanupUnwrittenFiles (services/output-files.ts)                        *)
(***************************************************************************)

\* getAllPaths: every path below dirPath, in the order the recursion adds them to the set.
\* A directory that cannot be listed contributes nothing.
RECURSIVE getAllPaths(_, _)
getAllPaths(f, dirPath) ==
    IF ~IsDir(f, dirPath) THEN <<>>
    ELSE LET entries == Readdir(f, dirPath)
             sub(n) == LET fullPath == Join(dirPath, n)
                       IN  <<fullPath>> \o (IF IsDir(f, fullPath) THEN getAllPaths(f, fullPath) ELSE <<>>)
         IN  Concat([i \in 1..Len(entries) |-> sub(entries[i])])

\* The sort key of cleanupUnwrittenFiles: b.split(sep).length - a.split(sep).length, deepest first.
DepthKeyShallowFirst(p) == Len(p)

DepthKey(p) == 0 - Len(p)

SortPathsByDepthUnsorted(paths) == paths

SortPathsByDepth(paths) ==
    LET keyed == [i \in 1..Len(paths) |-> [k |-> DepthKey(paths[i]), v |-> paths[i]]]
        sorted == StableSort(keyed)
    IN  [i \in 1..Len(sorted) |-> sorted[i].v]

\* The candidate paths of the trees the sweep is checked on, with the kind of each.
CleanupDirs == {<<"a">>, <<"a", "b">>, <<"a", "b", "c">>, <<"e">>}

CleanupFiles ==
    {<<"a", "b", "c", "file.md">>, <<"a", "b", "delete.md">>, <<"a", "x.md">>, <<"k.md">>}

WellFormedTree(paths) == \A p \in paths : p # Root => Front(p) \in paths /\ Front(p) \notin CleanupFiles

CleanupTrees ==
    {[p \in ps \cup {Root} |-> IF p \in CleanupFiles THEN BlobNode ELSE DirNode] :
        ps \in {qs \in SUBSET (CleanupDirs \cup CleanupFiles) : WellFormedTree(qs \cup {Root})}}

InitCleanup ==
    /\ fs \in CleanupTrees
    /\ tree0 = fs
    /\ writtenPaths \in SUBSET (DOMAIN fs)
    /\ sortedPaths = <<>>
    /\ deletedCount = 0
    /\ deletedLog = <<>>
    /\ unremovable = {}
    /\ clPc = "idle"
    /\ readResult = NoResult
    /\ UploadIdle
    /\ WriteIdle
    /\ DownloadIdle
    /\ AttachIdle
    /\ FetchIdle
    /\ McpIdle

\* cleanupUnwrittenFiles, up to the loop: list and sort.
CleanupStart ==
    /\ clPc = "idle"
    /\ sortedPaths' = SortPathsByDepth(getAllPaths(fs, Root))
    /\ deletedCount' = 0
    /\ clPc' = "sweep"
    /\ UNCHANGED <<mcpVars, fs, tree0, writtenPaths, deletedLog, unremovable, readVars, uploadVars, writeVars, downloadVars, attachVars, fetchVars>>

\* Whether the loop body deletes filePath: it is not a written path, it still exists,
\* a directory is empty, and the operating system lets it go.
DeletesDespiteRefusal(f, filePath) ==
    /\ filePath \notin writtenPaths
    /\ Exists(f, filePath)
    /\ IsDir(f, filePath) => Readdir(f, filePath) = <<>>

Deletes(f, filePath) ==
    /\ filePath \notin writtenPaths
    /\ Exists(f, filePath)
    /\ IsDir(f, filePath) => Readdir(f, filePath) = <<>>
    /\ filePath \notin unremovable

\* One iteration of the loop of cleanupUnwrittenFiles.
CleanupStep ==
    /\ clPc = "sweep"
    /\ sortedPaths # <<>>
    /\ LET filePath == Head(sortedPaths)
       IN  /\ fs' = IF Deletes(fs, filePath) THEN Remove(fs, filePath) ELSE fs
           /\ deletedCount' = IF Deletes(fs, filePath) THEN deletedCount + 1 ELSE deletedCount
           /\ deletedLog' = IF Deletes(fs, filePath) THEN Append(deletedLog, filePath) ELSE deletedLog
    /\ sortedPaths' = Tail(sortedPaths)
    /\ UNCHANGED <<mcpVars, tree0, writtenPaths, unremovable, clPc, readVars, uploadVars, writeVars, downloadVars, attachVars, fetchVars>>

\* cleanupUnwrittenFiles returns deletedCount.
CleanupReturn ==
    /\ clPc = "sweep"
    /\ sortedPaths = <<>>
    /\ clPc' = "done"
    /\ UNCHANGED <<mcpVars, fs, tree0, writtenPaths, sortedPaths, deletedCount, deletedLog, unremovable, readVars, uploadVars, writeVars, downloadVars, attachVars, fetchVars>>

NextCleanup == CleanupStart \/ CleanupStep \/ CleanupReturn

SpecCleanup == InitCleanup /\ [][NextCleanup]_vars

\* The number of entries another process deletes while the sweep runs.
MaxConcurrentDeletions == 1

\* The file system without the output directory.
NoDirectory == <<>>

\* The sweep where deletes can fail: the output directory may not exist, the operating
\* system may refuse to remove one entry, and another process may delete entries.
InitCleanupFailing ==
    /\ fs \in CleanupTrees \cup {NoDirectory}
    /\ tree0 = fs
    /\ writtenPaths \in SUBSET (DOMAIN fs)
    /\ sortedPaths = <<>>
    /\ deletedCount = 0
    /\ deletedLog = <<>>
    /\ unremovable \in {{}} \cup {{p} : p \in DOMAIN fs \ {Root}}
    /\ clPc = "idle"
    /\ readResult = NoResult
    /\ UploadIdle
    /\ WriteIdle
    /\ DownloadIdle
    /\ AttachIdle
    /\ FetchIdle
    /\ McpIdle

\* The paths that left the file system without the sweep deleting them.
DeletedByOthers == (DOMAIN tree0 \ DOMAIN fs) \ Range(deletedLog)

\* Another process deletes a file or an empty directory while the sweep runs: the
\* fs.stat of the sweep then throws for it, and the catch of the loop swallows that.
ConcurrentDeletion ==
    /\ clPc = "sweep"
    /\ Cardinality(DeletedByOthers) < MaxConcurrentDeletions
    /\ \E p \in DOMAIN fs \ {Root} :
          /\ IsDir(fs, p) => Readdir(fs, p) = <<>>
          /\ fs' = Remove(fs, p)
    /\ UNCHANGED <<mcpVars, tree0, cleanupVars, readVars, uploadVars, writeVars, downloadVars, attachVars, fetchVars>>

NextCleanupFailing == CleanupStart \/ CleanupStep \/ CleanupReturn \/ ConcurrentDeletion

SpecCleanupFailing == InitCleanupFailing /\ [][NextCleanupFailing]_vars

(***************************************************************************)
(* writeDocumentFile (utils/file-manager.ts)                               *)
(***************************************************************************)

\* The number of writeDocumentFile calls made one after the other.
MaxWrites == 3

\* fs.mkdir(dir, { recursive: true })
MkdirP(f, dir) ==
    LET missing == {SubSeq(dir, 1, n) : n \in 0..Len(dir)} \ DOMAIN f
    IN  [p \in DOMAIN f \cup missing |-> IF p \in DOMAIN f THEN f[p] ELSE DirNode]

\* Object.fromEntries(Object.entries(metadata).filter(([, value]) => value !== undefined))
StripUndefined(metadata) ==
    LET kept == {k \in DOMAIN metadata : k = "order" \/ metadata[k] # None}
    IN  [k \in kept |-> metadata[k]]

\* gray-matter's stringify ends the content with a newline when it has none.
EndWithNewline(content) == IF content = "x" THEN "x\n" ELSE content

\* What fs.writeFile is given, as the front matter and the body a reader finds in it.
\* metadata is the empty set (undefined) or the set of the one metadata object.
Serialized(content, metadata) ==
    IF metadata = {}
    THEN [data |-> <<>>, body |-> content]
    ELSE [data |-> StripUndefined(The(metadata)), body |-> EndWithNewline(content)]

\* The bytes of a file.
Bytes(node) == [data |-> node.data, body |-> node.body]

\* writeDocumentFile: the file system after the call made at time now.
writeDocumentFile(f, now, filePath, content, metadata) ==
    LET g == MkdirP(f, Dirname(filePath))
        bytes == Serialized(content, metadata)
        node == [kind |-> "file", data |-> bytes.data, body |-> bytes.body, mtime |-> now]
    IN  [p \in DOMAIN g \cup {filePath} |-> IF p = filePath THEN node ELSE g[p]]

WritePaths == {<<"a.md">>, <<"d", "index.md">>, <<"d", "a.md">>}

WriteContents == {"x", "x\n", "y\n"}

WriteMetadatas ==
    {{}} \cup {{[title |-> "T", description |-> d, outlineId |-> id]} :
                  d \in {None, "about"}, id \in {None, "doc-1"}}

InitWrite ==
    /\ fs = (Root :> DirNode)
    /\ tree0 = fs
    /\ writtenPaths = {}
    /\ sortedPaths = <<>>
    /\ deletedCount = 0
    /\ deletedLog = <<>>
    /\ unremovable = {}
    /\ clPc = "idle"
    /\ readResult = NoResult
    /\ UploadIdle
    /\ WriteIdle
    /\ DownloadIdle
    /\ AttachIdle
    /\ FetchIdle
    /\ McpIdle

\* A call of writeDocumentFile.
WriteDocument ==
    /\ writeCount < MaxWrites
    /\ \E filePath \in WritePaths : \E content \in WriteContents : \E metadata \in WriteMetadatas :
          fs' = writeDocumentFile(fs, clock + 1, filePath, content, metadata)
    /\ clock' = clock + 1
    /\ writeCount' = writeCount + 1
    /\ UNCHANGED <<mcpVars, tree0, cleanupVars, readVars, uploadVars, downloadVars, attachVars, fetchVars>>

NextWrite == WriteDocument

SpecWrite == InitWrite /\ [][NextWrite]_vars

(***************************************************************************)
(* uploadCommand (commands/upload.ts)                                      *)
(***************************************************************************)

\* const limit = pLimit(10)
Limit == 10

\* The number of uploadCommand runs made one after the other.
MaxPasses == 2

\* String.prototype.trim on the texts of the model.
TrimNothing(s) == s

Trim(s) == IF s = "x " THEN "x" ELSE s

\* The id Outline gives to the document created for the file at path in the given run.
NewId(pass, path) == "new" \o ToString(pass) \o ":" \o PathStr(path)

Queued == {i \in 1..Len(upPc) : upPc[i] = "queued"}

\* p-limit: the number of tasks that were started and have not settled.
ActiveCount == Cardinality({i \in 1..Len(upPc) : upPc[i] \in {"create", "get", "update"}})

\* p-limit starts the task at the head of its queue as soon as fewer than Limit run; that
\* happens in a microtask, before the answer of any API call is handled.
Startable == Queued # {} /\ ActiveCount < Limit

Settled == {"created", "updated", "skipped", "failed"}

Count(name) == [upCounts EXCEPT ![name] = @ + 1]

\* uploadCommand up to the call of limit(...) for every file: read the collection and
\* hand one task per file to the limiter. An error of readCollectionFiles fails the run.
UploadStart ==
    /\ upPhase \in {"idle", "finished"}
    /\ upPass < MaxPasses
    /\ upPass' = upPass + 1
    /\ LET filesToUpload == readCollectionFiles(fs)
       IN  IF filesToUpload.error # None
           THEN /\ upPhase' = "failed"
                /\ UNCHANGED <<mcpVars, upFiles, upPc, upCounts>>
           ELSE /\ upPhase' = "running"
                /\ upFiles' = filesToUpload.docs
                /\ upPc' = [i \in 1..Len(filesToUpload.docs) |-> "queued"]
                /\ upCounts' = NoCounts
    /\ UNCHANGED <<mcpVars, fsVars, cleanupVars, readVars, writeVars, downloadVars, attachVars, fetchVars, updateOnly, remote, upCalls, upCreated>>

\* uploadFile: a file without outlineId is skipped when options.updateOnly is set.
SkipsNewDocumentNever(file, onlyUpdates) == FALSE

SkipsNewDocument(file, onlyUpdates) == ~Truthy(Field(file.metadata, "outlineId")) /\ onlyUpdates

\* The limiter starts the next task: uploadFile runs up to its first API call.
StartTask ==
    /\ upPhase = "running"
    /\ Startable
    /\ LET i == CHOOSE j \in Queued : \A k \in Queued : j <= k
           file == upFiles[i]
           outlineId == Field(file.metadata, "outlineId")
       IN  IF SkipsNewDocument(file, updateOnly)
           THEN /\ upPc' = [upPc EXCEPT ![i] = "skipped"]
                /\ upCounts' = Count("skippedCount")
                /\ UNCHANGED upCalls
           ELSE IF Truthy(outlineId)
           THEN /\ upPc' = [upPc EXCEPT ![i] = "get"]
                /\ upCalls' = upCalls \cup
                      {[api |-> "getDocument", pass |-> upPass, file |-> i, id |-> outlineId]}
                /\ UNCHANGED upCounts
           ELSE /\ upPc' = [upPc EXCEPT ![i] = "create"]
                /\ upCalls' = upCalls \cup
                      {[api |-> "createDocument", pass |-> upPass, file |-> i,
                        title |-> file.metadata.title, text |-> file.content,
                        parentDocumentId |-> file.parentDocumentId]}
                /\ UNCHANGED upCounts
    /\ UNCHANGED <<mcpVars, fsVars, cleanupVars, readVars, writeVars, downloadVars, attachVars, fetchVars, updateOnly, remote, upPhase, upPass, upFiles, upCreated>>

\* createDocument returns the new document: createNewDocument returns 'created'.
CreateReturns(i) ==
    /\ upPhase = "running"
    /\ ~Startable
    /\ upPc[i] = "create"
    /\ LET file == upFiles[i]
           id == NewId(upPass, file.relativePath)
       IN  /\ remote' = remote @@ (id :> [title |-> file.metadata.title, text |-> file.content,
                                          parentDocumentId |-> file.parentDocumentId])
           /\ upCreated' = upCreated \cup {[pass |-> upPass, path |-> file.relativePath, id |-> id]}
    /\ upPc' = [upPc EXCEPT ![i] = "created"]
    /\ upCounts' = Count("uploadedCount")
    /\ UNCHANGED <<mcpVars, fsVars, cleanupVars, readVars, writeVars, downloadVars, attachVars, fetchVars, updateOnly, upPhase, upPass, upFiles, upCalls>>

\* getDocument returns: updateExistingDocument compares the texts and either returns
\* 'skipped' or calls updateDocument. For a document Outline does not have, getDocument
\* returns undefined and reading its text throws.
GetReturns(i) ==
    /\ upPhase = "running"
    /\ ~Startable
    /\ upPc[i] = "get"
    /\ LET file == upFiles[i]
           id == file.metadata.outlineId
       IN  IF id \notin DOMAIN remote
           THEN /\ upPc' = [upPc EXCEPT ![i] = "failed"]
                /\ upCounts' = Count("errorCount")
                /\ UNCHANGED upCalls
           ELSE IF Trim(remote[id].text) = Trim(file.content)
           THEN /\ upPc' = [upPc EXCEPT ![i] = "skipped"]
                /\ upCounts' = Count("skippedCount")
                /\ UNCHANGED upCalls
           ELSE /\ upPc' = [upPc EXCEPT ![i] = "update"]
                /\ upCalls' = upCalls \cup
                      {[api |-> "updateDocument", pass |-> upPass, file |-> i, id |-> id,
                        title |-> file.metadata.title, text |-> file.content]}
                /\ UNCHANGED upCounts
    /\ UNCHANGED <<mcpVars, fsVars, cleanupVars, readVars, writeVars, downloadVars, attachVars, fetchVars, updateOnly, remote, upPhase, upPass, upFiles, upCreated>>

\* updateDocument returns: updateExistingDocument returns 'updated'.
UpdateReturns(i) ==
    /\ upPhase = "running"
    /\ ~Startable
    /\ upPc[i] = "update"
    /\ LET file == upFiles[i]
           id == file.metadata.outlineId
       IN  remote' = [remote EXCEPT ![id].title = file.metadata.title, ![id].text = file.content]
    /\ upPc' = [upPc EXCEPT ![i] = "updated"]
    /\ upCounts' = Count("updatedCount")
    /\ UNCHANGED <<mcpVars, fsVars, cleanupVars, readVars, writeVars, downloadVars, attachVars, fetchVars, updateOnly, upPhase, upPass, upFiles, upCalls, upCreated>>

\* The API call in flight for file i fails: the catch of processCollectionFiles counts it.
CallFails(i) ==
    /\ upPhase = "running"
    /\ ~Startable
    /\ upPc[i] \in {"create", "get", "update"}
    /\ upPc' = [upPc EXCEPT ![i] = "failed"]
    /\ upCounts' = Count("errorCount")
    /\ UNCHANGED <<mcpVars, fsVars, cleanupVars, readVars, writeVars, downloadVars, attachVars, fetchVars, updateOnly, remote, upPhase, upPass, upFiles, upCalls, upCreated>>

UploadFinishOnFirstError ==
    /\ upPhase = "running"
    /\ \E i \in 1..Len(upPc) : upPc[i] = "failed"
    /\ upPhase' = "finished"
    /\ UNCHANGED <<mcpVars, fsVars, cleanupVars, readVars, writeVars, downloadVars, attachVars, fetchVars, updateOnly, remote, upPass, upFiles, upPc, upCalls, upCreated, upCounts>>

\* Promise.all settles: every task has settled.
UploadFinish ==
    /\ upPhase = "running"
    /\ \A i \in 1..Len(upPc) : upPc[i] \in Settled
    /\ upPhase' = "finished"
    /\ UNCHANGED <<mcpVars, fsVars, cleanupVars, readVars, writeVars, downloadVars, attachVars, fetchVars, updateOnly, remote, upPass, upFiles, upPc, upCalls, upCreated, upCounts>>

\* The local trees uploaded: documents with and without outlineId, at three levels.
UploadTrees ==
    TreesOver(<<
        [path |-> <<"a.md">>,
         nodes |-> {DocNode(FrontMatter({"A"}, {}, id), "x") : id \in {{}, {"doc-a"}}}],
        [path |-> <<"d">>, nodes |-> {DirNode}],
        [path |-> <<"d", "index.md">>,
         nodes |-> {DocNode(FrontMatter({"D"}, {}, id), "x") : id \in {{}, {"doc-d"}}}],
        [path |-> <<"d", "a.md">>,
         nodes |-> {DocNode(FrontMatter({"DA"}, {}, {}), "x")}],
        [path |-> <<"d", "e">>, nodes |-> {DirNode}],
        [path |-> <<"d", "e", "index.md">>,
         nodes |-> {DocNode(FrontMatter({"E"}, {}, {}), "x")}]
    >>)

\* The outlineIds written in the files of tree f.
LocalIds(f) ==
    {f[p].data.outlineId : p \in {q \in DOMAIN f : f[q].kind = "file" /\ "outlineId" \in DOMAIN f[q].data}}

\* Outline before the upload: it holds the documents the local files name, all with the
\* given text and under the given parent, or none of them.
RemoteStates(f) ==
    {[id \in ids |-> [title |-> "old", text |-> t, parentDocumentId |-> parent]] :
        ids \in {LocalIds(f)}, t \in {"x ", "y"}, parent \in {None, "doc-p"}} \cup {<<>>}

InitUpload ==
    /\ fs \in UploadTrees
    /\ tree0 = fs
    /\ writtenPaths = {}
    /\ sortedPaths = <<>>
    /\ deletedCount = 0
    /\ deletedLog = <<>>
    /\ unremovable = {}
    /\ clPc = "idle"
    /\ readResult = NoResult
    /\ updateOnly \in BOOLEAN
    /\ remote \in RemoteStates(fs)
    /\ upPhase = "idle"
    /\ upPass = 0
    /\ upFiles = <<>>
    /\ upPc = <<>>
    /\ upCalls = {}
    /\ upCreated = {}
    /\ upCounts = NoCounts
    /\ WriteIdle
    /\ DownloadIdle
    /\ AttachIdle
    /\ FetchIdle
    /\ McpIdle

NextUpload ==
    \/ UploadStart
    \/ StartTask
    \/ \E i \in 1..Len(upPc) : CreateReturns(i)
    \/ \E i \in 1..Len(upPc) : GetReturns(i)
    \/ \E i \in 1..Len(upPc) : UpdateReturns(i)
    \/ \E i \in 1..Len(upPc) : CallFails(i)
    \/ UploadFinish

SpecUpload == InitUpload /\ [][NextUpload]_vars

(***************************************************************************)
(* downloadCollection (commands/download.ts)                               *)
(***************************************************************************)

\* The titles of the remote documents.
Titles == {"Guide", "Index", "Notes", "???"}

\* createSafeFilename: slugify(title, { lower: true, strict: true, replacement: '-' });
\* a title without any letter or digit has the empty slug.
createSafeFilename(title) ==
    CASE title = "Guide" -> "guide"
      [] title = "Index" -> "index"
      [] title = "Notes" -> "notes"
      [] title = "???" -> ""

createSafeMarkdownFilename(title) == createSafeFilename(title) \o ".md"

\* path.join(dir, name): an empty name adds nothing to the path.
PathJoin(dir, name) == IF name = "" THEN dir ELSE Append(dir, name)

\* The text of a document that shows one attachment of Outline, and the text that
\* transformMarkdownImages makes of it for the image file of that name, stored in the
\* directory images next to the document.
ImageText == "![i](/api/attachments.redirect?id=att-123)\n"

LocalImageText(name) == "![i](images/" \o name \o ")\n"

\* The ids parseAttachments finds in a text.
AttachmentIdsIn(text) == IF text = ImageText THEN {"att-123"} ELSE {}

\* file.startsWith(attachment.id)
StartsWithId(file, id) == id = "att-123" /\ file \in {"att-123.gif", "att-123.png"}

\* The name downloadAttachmentToDirectory gives the file: the id and the extension of
\* the location the server redirects to.
AttachmentFileName(id) == id \o ".png"

\* A document of the hierarchy, without a description.
Doc(id, title, children) ==
    [id |-> id, title |-> title, description |-> None, text |-> "x\n", children |-> children]

Leaves(id, titles) == {Doc(id, t, <<>>) : t \in titles}

\* The remote hierarchies downloaded: g with its children i and j, i with its child k,
\* and n next to g; g with or without a description of its own, and with or without an
\* attachment in its text.
Hierarchies ==
    LET kidsI == {<<>>} \cup {<<k>> : k \in Leaves("doc-k", Titles)}
        docsI == {Doc("doc-i", t, ks) : t \in Titles, ks \in kidsI}
        kidsG == {<<>>} \cup {<<i>> : i \in docsI}
                    \cup {<<i, j>> : i \in docsI, j \in Leaves("doc-j", {"Index", "Notes"})}
        docsG == {[Doc("doc-g", t, ks) EXCEPT !.description = d, !.text = x] :
                     t \in Titles, ks \in kidsG, d \in {None, "remote"}, x \in {"x\n", ImageText}}
    IN  {<<>>} \cup {<<g>> : g \in docsG}
            \cup {<<g, n>> : g \in docsG, n \in Leaves("doc-n", {"Notes", "???"})}

\* The files of an earlier download (one of them of a document that is gone, two of them
\* images, one of these of an attachment that is gone) and a file that is no document.
EarlierDownload ==
    (Root :> DirNode)
        @@ (<<"a.md">> :> DocNode([title |-> "Gone", outlineId |-> "doc-a", order |-> 1], "x\n"))
        @@ (<<"guide.md">> :> DocNode([title |-> "Guide", description |-> "about",
                                       outlineId |-> "doc-g", order |-> 2], "x\n"))
        @@ (<<"c">> :> DirNode)
        @@ (<<"c", "n.txt">> :> BlobNode)
        @@ (<<"images">> :> DirNode)
        @@ (<<"images", "att-123.gif">> :> BlobNode)
        @@ (<<"images", "old.png">> :> BlobNode)

\* The output directory before the download: empty, holding the files of an earlier
\* download, or holding them and a document in a directory that lacks its index.md.
DownloadTrees ==
    {Root :> DirNode,
     EarlierDownload,
     EarlierDownload @@ (<<"c", "x.md">> :> DocNode([title |-> "X"], "x\n"))}

\* existingDocsIndex: the metadata of the local files that carry an outlineId; of two
\* files with the same outlineId the later one of the list stays.
IndexOfNothing(docs) == <<>>

IndexOf(docs) ==
    LET ids == {docs[i].metadata.outlineId :
                   i \in {j \in 1..Len(docs) : Truthy(Field(docs[j].metadata, "outlineId"))}}
        last(id) == CHOOSE i \in 1..Len(docs) :
                        /\ Field(docs[i].metadata, "outlineId") = id
                        /\ \A j \in (i + 1)..Len(docs) : Field(docs[j].metadata, "outlineId") # id
    IN  [id \in ids |-> docs[last(id)].metadata]

\* The calls of writeDocumentRecursive for the documents of one list, in their order.
WorkForReversed(docs, outputDir) ==
    [i \in 1..Len(docs) |-> [doc |-> docs[Len(docs) + 1 - i], outputDir |-> outputDir]]

WorkFor(docs, outputDir) == [i \in 1..Len(docs) |-> [doc |-> docs[i], outputDir |-> outputDir]]

InitDownload ==
    /\ fs \in DownloadTrees
    /\ tree0 = fs
    /\ writtenPaths = {}
    /\ sortedPaths = <<>>
    /\ deletedCount = 0
    /\ deletedLog = <<>>
    /\ unremovable = {}
    /\ clPc = "idle"
    /\ readResult = NoResult
    /\ UploadIdle
    /\ WriteIdle
    /\ remoteDocs \in Hierarchies
    /\ includeMetadata \in BOOLEAN
    /\ includeImages \in BOOLEAN
    /\ cleanupAfterDownload \in BOOLEAN
    /\ dlPc = "idle"
    /\ dlWork = <<>>
    /\ orderCounter = 1
    /\ dlWritten = 0
    /\ existingDocsIndex = <<>>
    /\ dlCalls = <<>>
    /\ AttachIdle
    /\ FetchIdle
    /\ McpIdle

\* downloadCollection up to its loop: index the existing files (an error of the reader
\* leaves the index empty) and fetch the hierarchy.
DownloadStart ==
    /\ dlPc = "idle"
    /\ LET existingDocs == readCollectionFiles(fs)
       IN  existingDocsIndex' = IF existingDocs.error # None THEN <<>> ELSE IndexOf(existingDocs.docs)
    /\ dlWork' = WorkFor(remoteDocs, Root)
    /\ writtenPaths' = {}
    /\ orderCounter' = 1
    /\ dlWritten' = 0
    /\ dlCalls' = <<>>
    /\ dlPc' = "writing"
    /\ UNCHANGED <<mcpVars, fsVars, sortedPaths, deletedCount, deletedLog, unremovable, clPc, readVars, uploadVars,
                   writeVars, attachVars, fetchVars, remoteDocs, includeMetadata, includeImages, cleanupAfterDownload>>

\* getDocumentsForCollection throws: downloadCollection rethrows.
DownloadFetchFails ==
    /\ dlPc = "idle"
    /\ dlPc' = "failed"
    /\ UNCHANGED <<mcpVars, fsVars, cleanupVars, readVars, uploadVars, writeVars, attachVars, fetchVars, remoteDocs, includeMetadata, includeImages,
                   cleanupAfterDownload, dlWork, orderCounter, dlWritten, existingDocsIndex, dlCalls>>

\* The metadata writeDocumentRecursive writes for a document.
DownloadMetadataConstantOrder(hierarchyDoc) ==
    LET existingMetadata ==
            IF hierarchyDoc.id \in DOMAIN existingDocsIndex THEN existingDocsIndex[hierarchyDoc.id] ELSE <<>>
    IN  [title |-> hierarchyDoc.title,
         description |-> IF hierarchyDoc.description # None THEN hierarchyDoc.description
                         ELSE Field(existingMetadata, "description"),
         outlineId |-> hierarchyDoc.id,
         order |-> 1]

DownloadMetadata(hierarchyDoc) ==
    LET existingMetadata ==
            IF hierarchyDoc.id \in DOMAIN existingDocsIndex THEN existingDocsIndex[hierarchyDoc.id] ELSE <<>>
    IN  [title |-> hierarchyDoc.title,
         description |-> IF hierarchyDoc.description # None THEN hierarchyDoc.description
                         ELSE Field(existingMetadata, "description"),
         outlineId |-> hierarchyDoc.id,
         order |-> orderCounter]

\* The images step of writeDocumentRecursive for the document written at filePath: the
\* file system after it, the text to write, and the paths it adds to writtenPaths. An
\* image file whose name starts with the id of the attachment is used as it is; without
\* one the attachment is downloaded.
ProcessImages(f, text, filePath) ==
    LET attachments == IF includeImages THEN AttachmentIdsIn(text) ELSE {}
        imageDir == PathJoin(Dirname(filePath), "images")
    IN  IF attachments = {}
        THEN [fs |-> f, documentContent |-> text, paths |-> {}, downloaded |-> {}]
        ELSE LET g == MkdirP(f, imageDir)
                 imageFiles == Readdir(g, imageDir)
                 id == The(attachments)
                 existing == SelectSeq(imageFiles, LAMBDA file : StartsWithId(file, id))
                 name == IF existing # <<>> THEN Head(existing) ELSE AttachmentFileName(id)
                 localPath == PathJoin(imageDir, name)
             IN  [fs |-> IF existing # <<>> THEN g ELSE g @@ (localPath :> BlobNode),
                  documentContent |-> LocalImageText(name),
                  paths |-> {localPath, imageDir},
                  downloaded |-> IF existing # <<>> THEN {} ELSE {localPath}]

\* The paths one call of writeDocumentRecursive adds to writtenPaths.
WrittenByWithoutImages(filePath, newParentPath, hasChildren, imagePaths) ==
    {filePath} \cup (IF hasChildren THEN {newParentPath} ELSE {})

WrittenBy(filePath, newParentPath, hasChildren, imagePaths) ==
    imagePaths \cup {filePath} \cup (IF hasChildren THEN {newParentPath} ELSE {})

\* One call of writeDocumentRecursive, up to its loop over the children, whose calls
\* come next.
WriteDocumentRecursive ==
    /\ dlPc = "writing"
    /\ dlWork # <<>>
    /\ LET hierarchyDoc == Head(dlWork).doc
           outputDir == Head(dlWork).outputDir
           newParentPath == PathJoin(outputDir, createSafeFilename(hierarchyDoc.title))
           filePath == IF Len(hierarchyDoc.children) > 0
                       THEN PathJoin(newParentPath, "index.md")
                       ELSE PathJoin(outputDir, createSafeMarkdownFilename(hierarchyDoc.title))
           metadata == IF includeMetadata THEN {DownloadMetadata(hierarchyDoc)} ELSE {}
           images == ProcessImages(fs, hierarchyDoc.text, filePath)
       IN  /\ fs' = writeDocumentFile(images.fs, clock + 1, filePath, images.documentContent, metadata)
           /\ writtenPaths' = writtenPaths \cup WrittenBy(filePath, newParentPath,
                                                          Len(hierarchyDoc.children) > 0, images.paths)
           /\ dlWork' = WorkFor(hierarchyDoc.children, newParentPath) \o Tail(dlWork)
           /\ dlCalls' = Append(dlCalls, [id |-> hierarchyDoc.id, outputDir |-> outputDir,
                                          filePath |-> filePath, metadata |-> metadata,
                                          images |-> images.paths])
    /\ clock' = clock + 1
    /\ writeCount' = writeCount + 1
    /\ orderCounter' = orderCounter + 1
    /\ dlWritten' = dlWritten + 1
    /\ UNCHANGED <<mcpVars, tree0, sortedPaths, deletedCount, deletedLog, unremovable, clPc, readVars, uploadVars,
                   attachVars, fetchVars, remoteDocs, includeMetadata, includeImages, cleanupAfterDownload, dlPc, existingDocsIndex>>

WriteDocumentFailsRollingBack ==
    /\ dlPc = "writing"
    /\ dlWork # <<>>
    /\ fs' = tree0
    /\ dlPc' = "failed"
    /\ UNCHANGED <<mcpVars, tree0, cleanupVars, readVars, uploadVars, writeVars, attachVars, fetchVars, remoteDocs, includeMetadata, includeImages,
                   cleanupAfterDownload, dlWork, orderCounter, dlWritten, existingDocsIndex, dlCalls>>

\* writeDocumentFile throws in a call of writeDocumentRecursive, in fs.mkdir or, with
\* the directory made, in fs.writeFile: the error leaves every loop and downloadCollection
\* rethrows it.
WriteDocumentFails ==
    /\ dlPc = "writing"
    /\ dlWork # <<>>
    /\ LET hierarchyDoc == Head(dlWork).doc
           outputDir == Head(dlWork).outputDir
           newParentPath == PathJoin(outputDir, createSafeFilename(hierarchyDoc.title))
           filePath == IF Len(hierarchyDoc.children) > 0
                       THEN PathJoin(newParentPath, "index.md")
                       ELSE PathJoin(outputDir, createSafeMarkdownFilename(hierarchyDoc.title))
           images == ProcessImages(fs, hierarchyDoc.text, filePath)
       IN  \E directoryMade \in BOOLEAN :
              fs' = IF directoryMade THEN MkdirP(images.fs, Dirname(filePath)) ELSE images.fs
    /\ dlPc' = "failed"
    /\ UNCHANGED <<mcpVars, tree0, cleanupVars, readVars, uploadVars, writeVars, attachVars, fetchVars, remoteDocs, includeMetadata, includeImages,
                   cleanupAfterDownload, dlWork, orderCounter, dlWritten, existingDocsIndex, dlCalls>>

\* downloadAttachmentToDirectory throws in a call of writeDocumentRecursive, after the
\* directory of the images was made: downloadCollection rethrows the error.
DownloadAttachmentFails ==
    /\ dlPc = "writing"
    /\ dlWork # <<>>
    /\ LET hierarchyDoc == Head(dlWork).doc
           outputDir == Head(dlWork).outputDir
           newParentPath == PathJoin(outputDir, createSafeFilename(hierarchyDoc.title))
           filePath == IF Len(hierarchyDoc.children) > 0
                       THEN PathJoin(newParentPath, "index.md")
                       ELSE PathJoin(outputDir, createSafeMarkdownFilename(hierarchyDoc.title))
       IN  /\ ProcessImages(fs, hierarchyDoc.text, filePath).downloaded # {}
           /\ fs' = MkdirP(fs, PathJoin(Dirname(filePath), "images"))
    /\ dlPc' = "failed"
    /\ UNCHANGED <<mcpVars, tree0, cleanupVars, readVars, uploadVars, writeVars, attachVars, fetchVars, remoteDocs, includeMetadata, includeImages,
                   cleanupAfterDownload, dlWork, orderCounter, dlWritten, existingDocsIndex, dlCalls>>

\* Every document is written: downloadCollection runs the sweep, or returns without it.
DownloadWrittenAlwaysSweeping ==
    /\ dlPc = "writing"
    /\ dlWork = <<>>
    /\ dlPc' = IF cleanupAfterDownload THEN "cleanup" ELSE "done"
    /\ UNCHANGED <<mcpVars, fsVars, cleanupVars, readVars, uploadVars, writeVars, attachVars, fetchVars, remoteDocs, includeMetadata, includeImages,
                   cleanupAfterDownload, dlWork, orderCounter, dlWritten, existingDocsIndex, dlCalls>>

DownloadWritten ==
    /\ dlPc = "writing"
    /\ dlWork = <<>>
    /\ dlPc' = IF cleanupAfterDownload /\ writtenPaths # {} THEN "cleanup" ELSE "done"
    /\ UNCHANGED <<mcpVars, fsVars, cleanupVars, readVars, uploadVars, writeVars, attachVars, fetchVars, remoteDocs, includeMetadata, includeImages,
                   cleanupAfterDownload, dlWork, orderCounter, dlWritten, existingDocsIndex, dlCalls>>

\* cleanupUnwrittenFiles has returned: downloadCollection returns.
DownloadReturn ==
    /\ dlPc = "cleanup"
    /\ clPc = "done"
    /\ dlPc' = "done"
    /\ UNCHANGED <<mcpVars, fsVars, cleanupVars, readVars, uploadVars, writeVars, attachVars, fetchVars, remoteDocs, includeMetadata, includeImages,
                   cleanupAfterDownload, dlWork, orderCounter, dlWritten, existingDocsIndex, dlCalls>>

NextDownload ==
    \/ DownloadStart
    \/ DownloadFetchFails
    \/ WriteDocumentRecursive
    \/ WriteDocumentFails
    \/ DownloadAttachmentFails
    \/ DownloadWritten
    \/ (dlPc = "cleanup" /\ CleanupStart)
    \/ (dlPc = "cleanup" /\ CleanupStep)
    \/ (dlPc = "cleanup" /\ CleanupReturn)
    \/ DownloadReturn
    \/ (dlPc = "done" /\ ReadCollection)

SpecDownload == InitDownload /\ [][NextDownload]_vars

(***************************************************************************)
(* Image references in a body (services/attachments.ts)                    *)
(*                                                                         *)
(* A body is a sequence of pieces: plain text, references to an attachment *)
(* of Outline, ![caption](/api/attachments.redirect?id=<id><annotations>), *)
(* and images with a path, ![caption](<path><annotations>). Two pieces are *)
(* equal exactly when their texts are.                                     *)
(***************************************************************************)

\* The largest number of pieces in a body.
MaxBody == 2

UuidA == "123e4567-e89b-4d3c-a456-426614174000"

\* The ids ATTACHMENT_REGEX accepts ([a-f0-9-]+): a version 4 UUID, a version 1 UUID and
\* the short id of the unit tests.
AttachmentIds == {UuidA, "123e4567-e89b-11d3-a456-426614174000", "123"}

\* UUID_REGEX.test(name)
IsUuidV4Never(name) == FALSE

IsUuidV4(name) == name = UuidA

\* Whether a text starts with white space: the annotations of the model are a size, put
\* after a blank, and a query parameter, which follows the id at once.
Annotations == {"", " =300x200", "&v=2"}

StartsWithSpace(text) == text = " =300x200"

Captions == {"Cap", "a$$b"}

\* String.prototype.replace reads $$ in its replacement as one $.
ExpandReplacement(text) == IF text = "a$$b" THEN "a$b" ELSE text

TextPiece(text) == [kind |-> "text", text |-> text]

\* The piece the text ![caption](/api/attachments.redirect?id=<id><annotations>) is.
AttachmentPiece(caption, id, annotations) ==
    [kind |-> "attachment", caption |-> caption, id |-> id, annotations |-> annotations]

\* The piece the text ![caption](<relativePath><annotations>) is. RELATIVE_IMAGE_REGEX
\* takes the path up to the first white space, so annotations that do not start with
\* white space are read as the end of the path.
ImagePiece(caption, relativePath, annotations) ==
    IF annotations = "" \/ StartsWithSpace(annotations)
    THEN [kind |-> "image", caption |-> caption, path |-> relativePath, annotations |-> annotations]
    ELSE [kind |-> "image", caption |-> caption,
          path |-> [relativePath EXCEPT !.tail = @ \o annotations], annotations |-> ""]

\* A path in an image: whether it starts with ./, its directories, and its file name as
\* the name, the extension and whatever follows the extension.
ImagePath(dotSlash, dirs, name, ext, tail) ==
    [dotSlash |-> dotSlash, dirs |-> dirs, name |-> name, ext |-> ext, tail |-> tail]

\* path.posix.relative(from, to) for a file to: the directories that lead from the
\* directory from to the file.
RelativeDirs(from, toDirs) ==
    LET common == CHOOSE n \in 0..Len(from) :
                      /\ n <= Len(toDirs)
                      /\ SubSeq(from, 1, n) = SubSeq(toDirs, 1, n)
                      /\ (n < Len(from) /\ n < Len(toDirs)) => from[n + 1] # toDirs[n + 1]
    IN  [i \in 1..(Len(from) - common) |-> ".."] \o SubSeq(toDirs, common + 1, Len(toDirs))

\* The directory of the document file.
DocumentPath == <<"docs">>

\* attachment.localPath: downloadCollection stores an attachment as images/<id><ext> in
\* the directory of the document; the unit tests also use a file of another name and a
\* file outside that directory.
LocalPath(id, where) ==
    CASE where = "byId" -> [dirs |-> <<"docs", "images">>, name |-> id, ext |-> "png"]
      [] where = "named" -> [dirs |-> <<"docs", "images">>, name |-> "image", ext |-> "png"]
      [] where = "shared" -> [dirs |-> <<"images", "shared">>, name |-> id, ext |-> "png"]

\* parseAttachments
parseAttachments(content) ==
    LET found == SelectSeq(content, LAMBDA piece : piece.kind = "attachment")
    IN  [i \in 1..Len(found) |->
            [id |-> found[i].id,
             caption |-> found[i].caption,
             originalUrl |-> [id |-> found[i].id, annotations |-> found[i].annotations],
             annotations |-> IF found[i].annotations = "" THEN None ELSE found[i].annotations]]

\* content.replace(pattern, replacement) for a pattern that is a string: the first
\* occurrence only.
ReplaceFirst(content, pattern, replacement) ==
    IF \E i \in 1..Len(content) : content[i] = pattern
    THEN LET first == CHOOSE i \in 1..Len(content) :
                          content[i] = pattern /\ \A j \in 1..(i - 1) : content[j] # pattern
         IN  [content EXCEPT ![first] = replacement]
    ELSE content

OrEmpty(annotations) == IF annotations = None THEN "" ELSE annotations

\* transformMarkdownImages
RECURSIVE transformMarkdownImages(_, _, _)
transformMarkdownImages(content, attachments, documentPath) ==
    IF attachments = <<>> THEN content
    ELSE LET attachment == Head(attachments)
             localDirs == RelativeDirs(documentPath, attachment.localPath.dirs)
             startsWithDot == localDirs # <<>> /\ localDirs[1] = ".."
             relativePath == ImagePath(~startsWithDot, localDirs, attachment.localPath.name,
                                       attachment.localPath.ext, "")
             originalPattern == AttachmentPiece(attachment.caption, attachment.originalUrl.id,
                                                attachment.originalUrl.annotations)
             replacement == ImagePiece(ExpandReplacement(attachment.caption), relativePath,
                                       ExpandReplacement(OrEmpty(attachment.annotations)))
         IN  transformMarkdownImages(ReplaceFirst(content, originalPattern, replacement),
                                     Tail(attachments), documentPath)

\* parseRelativeImages: the images whose path starts with ./
parseRelativeImages(content) ==
    LET found == SelectSeq(content, LAMBDA piece : piece.kind = "image" /\ piece.path.dotSlash)
    IN  [i \in 1..Len(found) |->
            [caption |-> found[i].caption,
             relativePath |-> found[i].path,
             isExistingAttachment |-> IsUuidV4(found[i].path.name),
             attachmentId |-> IF IsUuidV4(found[i].path.name) THEN found[i].path.name ELSE None,
             annotations |-> IF found[i].annotations = "" THEN None ELSE found[i].annotations]]

\* transformMarkdownToAttachments
RECURSIVE transformMarkdownToAttachments(_, _)
transformMarkdownToAttachments(content, images) ==
    IF images = <<>> THEN content
    ELSE LET image == Head(images)
             originalPattern == ImagePiece(image.caption, image.relativePath, OrEmpty(image.annotations))
             replacement == AttachmentPiece(ExpandReplacement(image.caption), image.attachmentId,
                                            ExpandReplacement(OrEmpty(image.annotations)))
         IN  IF image.isExistingAttachment /\ Truthy(image.attachmentId)
             THEN transformMarkdownToAttachments(ReplaceFirst(content, originalPattern, replacement),
                                                 Tail(images))
             ELSE transformMarkdownToAttachments(content, Tail(images))

\* The pieces of the bodies: a text, the attachment references, and two images of the
\* body's own, one of them with a UUID as its file name.
Pieces ==
    {TextPiece("Hello")}
        \cup {AttachmentPiece(c, id, a) : c \in Captions, id \in AttachmentIds, a \in Annotations}
        \cup {ImagePiece("Cap", ImagePath(TRUE, <<"images">>, n, "png", ""), "") : n \in {UuidA, "photo"}}

Bodies == UNION {[1..n -> Pieces] : n \in 0..MaxBody}

InitAttach ==
    /\ fs = (Root :> DirNode)
    /\ tree0 = fs
    /\ writtenPaths = {}
    /\ sortedPaths = <<>>
    /\ deletedCount = 0
    /\ deletedLog = <<>>
    /\ unremovable = {}
    /\ clPc = "idle"
    /\ readResult = NoResult
    /\ UploadIdle
    /\ WriteIdle
    /\ DownloadIdle
    /\ FetchIdle
    /\ McpIdle
    /\ atBody \in Bodies
    /\ atLocalPaths \in {"byId", "named", "shared"}
    /\ atLocal = <<>>
    /\ atImages = <<>>
    /\ atBack = <<>>
    /\ atPc = "start"

\* The download rewrites the body: every attachment parseAttachments finds is given its
\* local path and transformMarkdownImages is called.
ToLocalPaths ==
    /\ atPc = "start"
    /\ LET attachments == parseAttachments(atBody)
           attachmentsWithPaths ==
               [i \in 1..Len(attachments) |->
                   attachments[i] @@ [localPath |-> LocalPath(attachments[i].id, atLocalPaths)]]
       IN  atLocal' = transformMarkdownImages(atBody, attachmentsWithPaths, DocumentPath)
    /\ atPc' = "local"
    /\ UNCHANGED <<mcpVars, fsVars, cleanupVars, readVars, uploadVars, writeVars, downloadVars, fetchVars,
                   atBody, atLocalPaths, atImages, atBack>>

\* The upload parses the images of the local body.
ParseLocalImages ==
    /\ atPc = "local"
    /\ atImages' = parseRelativeImages(atLocal)
    /\ atPc' = "parsed"
    /\ UNCHANGED <<mcpVars, fsVars, cleanupVars, readVars, uploadVars, writeVars, downloadVars, fetchVars,
                   atBody, atLocalPaths, atLocal, atBack>>

\* The upload rewrites the local body with the images it parsed.
ToAttachmentUrls ==
    /\ atPc = "parsed"
    /\ atBack' = transformMarkdownToAttachments(atLocal, atImages)
    /\ atPc' = "back"
    /\ UNCHANGED <<mcpVars, fsVars, cleanupVars, readVars, uploadVars, writeVars, downloadVars, fetchVars,
                   atBody, atLocalPaths, atLocal, atImages>>

NextAttach == ToLocalPaths \/ ParseLocalImages \/ ToAttachmentUrls

SpecAttach == InitAttach /\ [][NextAttach]_vars

(***************************************************************************)
(* The request limiters (services/documents.ts, commands/upload.ts)        *)
(***************************************************************************)

\* const CONCURRENT_REQUEST_LIMIT = 10
CONCURRENT_REQUEST_LIMIT == 10

\* The document structures fetched: eleven documents at the top level; one document
\* with eleven children, the first of which has a child of its own.
FlatStructure == [n \in 1..11 |-> 0]

DeepStructure == [n \in 1..13 |-> IF n = 1 THEN 0 ELSE IF n = 13 THEN 2 ELSE 1]

\* The children of a node (the top-level nodes for 0), in their order.
ChildrenOf(node) == SelectSeq([n \in 1..Len(ftParent) |-> n], LAMBDA n : ftParent[n] = node)

InFlight == {n \in 1..Len(ftPc) : ftPc[n] = "inflight"}

\* p-limit runs the head of its queue as soon as fewer than the limit run, before the
\* answer of any request is handled.
FetchStartableUnlimited == ftQueue # <<>>

FetchStartable == ftQueue # <<>> /\ Cardinality(InFlight) < CONCURRENT_REQUEST_LIMIT

\* fetchDocument for every node of the sequence: limit(...) puts each in the queue.
Enqueue(nodes) == [n \in 1..Len(ftPc) |-> IF n \in Range(nodes) THEN "queued" ELSE ftPc[n]]

\* The local tree uploaded through the limiter: thirteen new documents.
ManyFilesTree ==
    LET names == {".md", "index.md", "a.md", "b.md", "c.md", "delete.md", "file.md", "guide.md",
                  "k.md", "notes.md", "x.md"}
    IN  (Root :> DirNode) @@ (<<"d">> :> DirNode)
           @@ [p \in {<<n>> : n \in names} \cup {<<"d", "index.md">>, <<"d", "a.md">>}
                  |-> DocNode([title |-> "T"], "x")]

InitLimiter ==
    /\ fs = ManyFilesTree
    /\ tree0 = fs
    /\ writtenPaths = {}
    /\ sortedPaths = <<>>
    /\ deletedCount = 0
    /\ deletedLog = <<>>
    /\ unremovable = {}
    /\ clPc = "idle"
    /\ readResult = NoResult
    /\ UploadIdle
    /\ WriteIdle
    /\ DownloadIdle
    /\ AttachIdle
    /\ ftParent \in {FlatStructure, DeepStructure}
    /\ ftPc = [n \in 1..Len(ftParent) |-> "waiting"]
    /\ ftQueue = <<>>
    /\ McpIdle

\* getDocumentsForCollection: buildDocumentHierarchy asks for every top-level document.
FetchStart ==
    /\ \A n \in 1..Len(ftPc) : ftPc[n] = "waiting"
    /\ ftPc' = Enqueue(ChildrenOf(0))
    /\ ftQueue' = ChildrenOf(0)
    /\ UNCHANGED <<mcpVars, fsVars, cleanupVars, readVars, uploadVars, writeVars, downloadVars, attachVars, ftParent>>

\* The limiter starts the request at the head of its queue: getDocument is called.
FetchDequeue ==
    /\ FetchStartable
    /\ ftPc' = [ftPc EXCEPT ![Head(ftQueue)] = "inflight"]
    /\ ftQueue' = Tail(ftQueue)
    /\ UNCHANGED <<mcpVars, fsVars, cleanupVars, readVars, uploadVars, writeVars, downloadVars, attachVars, ftParent>>

\* getDocument returns for a node: buildDocumentHierarchy asks for its children.
FetchReturns(node) ==
    /\ ~FetchStartable
    /\ ftPc[node] = "inflight"
    /\ ftPc' = [Enqueue(ChildrenOf(node)) EXCEPT ![node] = "fetched"]
    /\ ftQueue' = ftQueue \o ChildrenOf(node)
    /\ UNCHANGED <<mcpVars, fsVars, cleanupVars, readVars, uploadVars, writeVars, downloadVars, attachVars, ftParent>>

\* getDocument throws for a node: its children are never asked for; the requests of
\* the other nodes go on.
FetchFails(node) ==
    /\ ~FetchStartable
    /\ ftPc[node] = "inflight"
    /\ ftPc' = [ftPc EXCEPT ![node] = "failed"]
    /\ UNCHANGED <<mcpVars, fsVars, cleanupVars, readVars, uploadVars, writeVars, downloadVars, attachVars, ftParent, ftQueue>>

\* Every document of the structure was fetched.
Fetched == \A n \in 1..Len(ftPc) : ftPc[n] = "fetched"

\* The hierarchy is fetched, then the files are uploaded.
NextLimiter ==
    \/ FetchStart
    \/ FetchDequeue
    \/ \E node \in 1..Len(ftPc) : FetchReturns(node)
    \/ \E node \in 1..Len(ftPc) : FetchFails(node)
    \/ (Fetched /\ UploadStart)
    \/ StartTask
    \/ \E i \in 1..Len(upPc) : CreateReturns(i)
    \/ UploadFinish

SpecLimiter == InitLimiter /\ [][NextLimiter]_vars

(***************************************************************************)
(* The document tools of the MCP server (mcp/tools)                        *)
(*                                                                         *)
(* The collections lie next to each other under the output directory, so   *)
(* that here the paths of fs start at that directory: the output directory *)
(* of a collection is a directory of fs.                                   *)
(***************************************************************************)

\* The largest number of tool calls in one behaviour.
MaxToolCalls == 2

\* The collections the server is started with: Guide may be written, Notes is read-only.
Collections ==
    <<[name |-> "Guide", outputDirectory |-> <<"guide">>, readOnly |-> FALSE],
      [name |-> "Notes", outputDirectory |-> <<"notes">>, readOnly |-> TRUE]>>

\* A document URI documents://<collectionKey>/<documentPath> is held as the two groups
\* of DOCUMENT_URI_REGEX, the document path as its segments between the slashes.
parseDocumentUri(uri) == [collectionKey |-> uri.collectionKey, documentPath |-> uri.documentPath]

\* The document path as it is written in the URI.
RECURSIVE DocumentPathStr(_)
DocumentPathStr(segments) ==
    IF segments = <<>> THEN ""
    ELSE IF Len(segments) = 1 THEN Head(segments)
    ELSE Head(segments) \o "/" \o DocumentPathStr(Tail(segments))

\* collections.find((c) => createSafeFilename(c.name) === collectionKey), as the set of
\* the one collection found, or the empty set.
FindCollection(collectionKey) ==
    LET matching == SelectSeq(Collections, LAMBDA c : createSafeFilename(c.name) = collectionKey)
    IN  IF matching = <<>> THEN {} ELSE {Head(matching)}

\* path.join(outputDirectory, documentPath): a segment .. takes the segment before it away.
RECURSIVE JoinSegments(_, _)
JoinSegments(dir, segments) ==
    IF segments = <<>> THEN dir
    ELSE IF Head(segments) = ".."
         THEN JoinSegments(IF dir = <<>> THEN dir ELSE Front(dir), Tail(segments))
         ELSE JoinSegments(Append(dir, Head(segments)), Tail(segments))

\* fileExists: fs.stat(filePath).then((file) => file.isFile()).catch(() => false)
fileExists(f, filePath) == IsFile(f, filePath)

\* Whether fs.mkdir or fs.writeFile throws in writeDocumentFile: a file stands where a
\* directory is needed, or a directory where the file is to be.
WriteThrows(f, filePath) ==
    \/ IsDir(f, filePath)
    \/ \E n \in 0..(Len(filePath) - 1) : IsFile(f, SubSeq(filePath, 1, n))

\* The outcomes of a tool call: it rejects with an error and the file system it leaves,
\* or it returns after its write.
Rejects(f, message) == [error |-> message, fs |-> f, written |-> FALSE]

Returns(f) == [error |-> None, fs |-> f, written |-> TRUE]

\* The call of writeDocumentFile that ends each tool.
WriteOrReject(f, now, fullPath, content, metadata) ==
    IF WriteThrows(f, fullPath)
    THEN Rejects(f, "EISDIR or ENOTDIR: " \o PathStr(fullPath))
    ELSE Returns(writeDocumentFile(f, now, fullPath, content, {metadata}))

\* mcpCreateDocument
mcpCreateDocument(f, now, params) ==
    LET uri == parseDocumentUri(params.documentUri)
        found == FindCollection(uri.collectionKey)
    IN  IF found = {}
        THEN Rejects(f, "Collection with key '" \o uri.collectionKey \o "' not found")
        ELSE LET collection == The(found)
                 fullPath == JoinSegments(collection.outputDirectory, uri.documentPath)
             IN  IF collection.readOnly
                 THEN Rejects(f, "Collection '" \o collection.name \o "' is read-only")
                 ELSE IF fileExists(f, fullPath)
                 THEN Rejects(f, "Document already exists at path '"
                                    \o DocumentPathStr(uri.documentPath) \o "'")
                 ELSE WriteOrReject(f, now, fullPath, params.content,
                                    [title |-> params.title, description |-> params.description])

\* The metadata mcpEditDocument writes: the title and the description are replaced when
\* they are given (a set of one value), and an empty description is taken out.
UpdatedMetadata(metadata, title, description) ==
    LET withTitle == IF title = {} THEN metadata
                     ELSE [k \in DOMAIN metadata \cup {"title"} |->
                              IF k = "title" THEN The(title) ELSE metadata[k]]
    IN  IF description = {} THEN withTitle
        ELSE [k \in DOMAIN withTitle \cup {"description"} |->
                 IF k = "description"
                 THEN (IF The(description) = "" THEN None ELSE The(description))
                 ELSE withTitle[k]]

\* mcpEditDocument
mcpEditDocument(f, now, params) ==
    LET uri == parseDocumentUri(params.documentUri)
        found == FindCollection(uri.collectionKey)
    IN  IF found = {}
        THEN Rejects(f, "Collection with key '" \o uri.collectionKey \o "' not found")
        ELSE LET collection == The(found)
                 fullPath == JoinSegments(collection.outputDirectory, uri.documentPath)
             IN  IF collection.readOnly
                 THEN Rejects(f, "Collection '" \o collection.name \o "' is read-only")
                 ELSE IF ~fileExists(f, fullPath)
                 THEN Rejects(f, "Document not found at path '"
                                    \o DocumentPathStr(uri.documentPath) \o "'")
                 ELSE LET read == readDocumentFile(f, fullPath, None)
                      IN  IF read.error # None THEN Rejects(f, read.error)
                          ELSE WriteOrReject(f, now, fullPath,
                                   IF params.content = {} THEN read.doc.content ELSE The(params.content),
                                   UpdatedMetadata(read.doc.metadata, params.title, params.description))

\* The contents of the documents, and the texts looked for and put in their place.
Contents == {"a a\n", "a b\n", "b b\n"}

Texts == {"a", "b"}

\* (content.match(new RegExp(escapeRegExp(oldText), 'g')) ?? []).length
CountOf(content, oldText) ==
    CASE content = "a a\n" -> IF oldText = "a" THEN 2 ELSE 0
      [] content = "a b\n" -> 1
      [] content = "b b\n" -> IF oldText = "b" THEN 2 ELSE 0

\* content.replace(regex, newText): every occurrence is replaced.
ReplaceAll(content, oldText, newText) ==
    IF oldText = newText THEN content
    ELSE CASE content = "a a\n" -> IF oldText = "a" THEN "b b\n" ELSE content
           [] content = "a b\n" -> IF oldText = "a" THEN "b b\n" ELSE "a a\n"
           [] content = "b b\n" -> IF oldText = "b" THEN "a a\n" ELSE content

\* params.commands.map(...): the error of the first command whose count is not the
\* expected one, and the content with the commands before it applied.
RECURSIVE ApplyCommands(_, _)
ApplyCommands(content, commands) ==
    IF commands = <<>> THEN [error |-> None, content |-> content]
    ELSE LET cmd == Head(commands)
             count == CountOf(content, cmd.oldText)
             expectedCount == IF cmd.numReplacements = {} THEN 1 ELSE The(cmd.numReplacements)
         IN  IF count # expectedCount
             THEN [error |-> "Expected " \o ToString(expectedCount) \o " replacements for '"
                                \o cmd.oldText \o "', but found " \o ToString(count),
                   content |-> content]
             ELSE ApplyCommands(ReplaceAll(content, cmd.oldText, cmd.newText), Tail(commands))

\* The end of mcpInlineEdit: the commands are applied to the content in memory, and the
\* document is written when all of them have been.
WriteEditedAsFarAsApplied(f, now, fullPath, document, commands) ==
    LET applied == ApplyCommands(document.content, commands)
        wrote == WriteOrReject(f, now, fullPath, applied.content, document.metadata)
    IN  IF applied.error # None THEN [wrote EXCEPT !.error = applied.error] ELSE wrote

WriteEdited(f, now, fullPath, document, commands) ==
    LET applied == ApplyCommands(document.content, commands)
    IN  IF applied.error # None THEN Rejects(f, applied.error)
        ELSE WriteOrReject(f, now, fullPath, applied.content, document.metadata)

\* mcpInlineEdit
mcpInlineEdit(f, now, params) ==
    LET uri == parseDocumentUri(params.documentUri)
        found == FindCollection(uri.collectionKey)
    IN  IF found = {}
        THEN Rejects(f, "Collection with key '" \o uri.collectionKey \o "' not found")
        ELSE LET collection == The(found)
                 fullPath == JoinSegments(collection.outputDirectory, uri.documentPath)
             IN  IF collection.readOnly
                 THEN Rejects(f, "Collection '" \o collection.name \o "' is read-only")
                 ELSE IF ~fileExists(f, fullPath)
                 THEN Rejects(f, "Document not found at path '"
                                    \o DocumentPathStr(uri.documentPath) \o "'")
                 ELSE LET read == readDocumentFile(f, fullPath, None)
                      IN  IF read.error # None THEN Rejects(f, read.error)
                          ELSE WriteEdited(f, now, fullPath, read.doc, params.commands)

\* The URIs of the calls: the keys of the two collections and a key of none, and the
\* paths of a document, of a document in a subdirectory, of a document reached through
\* the directory above, and the empty path.
DocumentUris ==
    {[collectionKey |-> k, documentPath |-> p] :
        k \in {"guide", "notes", "missing"},
        p \in {<<"a.md">>, <<"d", "a.md">>, <<"..", "notes", "a.md">>, <<>>}}

\* The find-replace commands of a call: at most two, with the expected count left out
\* or given as 2.
Commands ==
    {c \in [oldText : Texts, newText : Texts, numReplacements : {{}, {2}}] : c.oldText # c.newText}

CommandLists == {<<>>} \cup {<<c>> : c \in Commands} \cup {<<c, e>> : c \in Commands, e \in Commands}

\* The output directory before the calls: the directories of the two collections, with
\* or without a document in each; the document of Guide may lack its title.
McpTrees ==
    LET base == (Root :> DirNode) @@ (<<"guide">> :> DirNode) @@ (<<"notes">> :> DirNode)
        guides == {base,
                   base @@ (<<"guide", "a.md">> :> DocNode([title |-> "A", description |-> "about"], "a b\n")),
                   base @@ (<<"guide", "a.md">> :> DocNode([description |-> "about"], "a b\n"))}
    IN  guides \cup {g @@ (<<"notes", "a.md">> :> DocNode([title |-> "N"], "a a\n")) : g \in guides}

InitMcp ==
    /\ fs \in McpTrees
    /\ tree0 = fs
    /\ writtenPaths = {}
    /\ sortedPaths = <<>>
    /\ deletedCount = 0
    /\ deletedLog = <<>>
    /\ unremovable = {}
    /\ clPc = "idle"
    /\ readResult = NoResult
    /\ UploadIdle
    /\ WriteIdle
    /\ DownloadIdle
    /\ AttachIdle
    /\ FetchIdle
    /\ mcpResult = NoToolResult
    /\ mcpCalls = 0

\* One call of a tool with its outcome: tree0 keeps the file system the call found.
ToolCall(tool, documentUri, commands, outcome) ==
    /\ mcpCalls < MaxToolCalls
    /\ mcpCalls' = mcpCalls + 1
    /\ tree0' = fs
    /\ fs' = outcome.fs
    /\ clock' = IF outcome.written THEN clock + 1 ELSE clock
    /\ writeCount' = IF outcome.written THEN writeCount + 1 ELSE writeCount
    /\ mcpResult' = [tool |-> tool, documentUri |-> documentUri, commands |-> commands,
                     error |-> outcome.error]
    /\ UNCHANGED <<cleanupVars, readVars, uploadVars, downloadVars, attachVars, fetchVars>>

McpCreateDocument ==
    \E documentUri \in DocumentUris, description \in {None, "about"} :
        ToolCall("create-document", documentUri, <<>>,
                 mcpCreateDocument(fs, clock + 1,
                     [documentUri |-> documentUri, title |-> "T", description |-> description,
                      content |-> "a b\n"]))

McpEditDocument ==
    \E documentUri \in DocumentUris, title \in {{}, {"T2"}}, description \in {{}, {""}, {"new"}},
       content \in {{}, {"b b\n"}} :
        ToolCall("edit-document", documentUri, <<>>,
                 mcpEditDocument(fs, clock + 1,
                     [documentUri |-> documentUri, title |-> title, description |-> description,
                      content |-> content]))

McpInlineEdit ==
    \E documentUri \in DocumentUris, commands \in CommandLists :
        ToolCall("inline-edit", documentUri, commands,
                 mcpInlineEdit(fs, clock + 1, [documentUri |-> documentUri, commands |-> commands]))

NextMcp == McpCreateDocument \/ McpEditDocument \/ McpInlineEdit

SpecMcp == InitMcp /\ [][NextMcp]_vars

(***************************************************************************)
(* Claims about the cleanup sweep                                          *)
(***************************************************************************)

DeletedPaths == DOMAIN tree0 \ DOMAIN fs

\* What the sweep is to delete from tree t given the written paths s: every file not in s
\* and every directory not in s below which no path of s lies.
ExpectedDeleted(t, s) ==
    {p \in DOMAIN t \ {Root} :
        /\ p \notin s
        /\ t[p].kind = "dir" => \A q \in DOMAIN t : IsProperPrefix(p, q) => q \notin s}

\* C1: for any tree T and written-paths set S, cleanupUnwrittenFiles deletes exactly the
\* files of T that are not in S and the directories of T not in S that are empty once
\* the paths below them have been handled; it never deletes a directory that still
\* contains a file present in S, and never deletes a path that is in S.
C1_CleanupExact ==
    /\ clPc = "done" =>
          /\ DeletedPaths = ExpectedDeleted(tree0, writtenPaths)
          /\ deletedCount = Cardinality(ExpectedDeleted(tree0, writtenPaths))
    /\ DeletedPaths \cap writtenPaths = {}
    /\ \A d \in DeletedPaths : \A q \in writtenPaths :
          (IsProperPrefix(d, q) /\ tree0[q].kind = "file") => FALSE

\* A finished sweep that deleted a directory together with the file in it, and kept a
\* directory outside S because a file of S lies in it.
C1_Witness ==
    /\ clPc = "done"
    /\ \E d \in DeletedPaths : tree0[d].kind = "dir" /\ \E q \in DeletedPaths : IsProperPrefix(d, q)
    /\ \E d \in DOMAIN fs \ (writtenPaths \cup {Root}) :
          fs[d].kind = "dir" /\ \E q \in writtenPaths : IsProperPrefix(d, q) /\ fs[q].kind = "file"

\* The tree a/b/c/file.md and the written paths {root, a, a/b}.
NestedScenario ==
    /\ DOMAIN tree0 = {Root, <<"a">>, <<"a", "b">>, <<"a", "b", "c">>, <<"a", "b", "c", "file.md">>}
    /\ writtenPaths = {Root, <<"a">>, <<"a", "b">>}

\* C11: cleanupUnwrittenFiles handles paths deepest first, so every entry inside a
\* directory is handled before that directory is examined: no path still to be handled
\* comes before a path that lies inside it, and no path is deleted before a path inside
\* it. For the tree a/b/c/file.md with written paths {root, a, a/b} the sweep deletes
\* c/file.md, then c, and returns 2.
C11_DeepestFirst ==
    /\ \A i, j \in 1..Len(sortedPaths) :
          i < j => /\ Len(sortedPaths[i]) >= Len(sortedPaths[j])
                   /\ ~IsProperPrefix(sortedPaths[i], sortedPaths[j])
    /\ \A i, j \in 1..Len(deletedLog) : i < j => ~IsProperPrefix(deletedLog[i], deletedLog[j])
    /\ clPc = "sweep" =>
          \A d \in DOMAIN fs : \A q \in DOMAIN fs :
             (IsProperPrefix(d, q) /\ d \notin Range(sortedPaths) /\ d # Root) => q \notin Range(sortedPaths)
    /\ (clPc = "done" /\ NestedScenario) =>
          /\ deletedLog = << <<"a", "b", "c", "file.md">>, <<"a", "b", "c">> >>
          /\ deletedCount = 2

\* The sweep of the tree a/b/c/file.md has finished and deleted the file and then c.
C11_Witness ==
    /\ clPc = "done"
    /\ NestedScenario
    /\ deletedCount = 2
    /\ DOMAIN fs = {Root, <<"a">>, <<"a", "b">>}

\* C21: cleanupUnwrittenFiles never raises: a sweep always goes on to its end. An output
\* directory that does not exist gives 0 deletions; an entry whose delete fails stays
\* and is not counted, and the sweep continues with the remaining entries: at the end
\* every file outside the written paths whose delete did not fail is gone; the count
\* returned is the number of deletions that succeeded.
C21_CleanupNeverRaises ==
    /\ clPc \in {"idle", "sweep", "done"}
    /\ deletedCount = Len(deletedLog)
    /\ deletedCount = Cardinality(Range(deletedLog))
    /\ Range(deletedLog) \cap (DOMAIN fs \cup unremovable \cup writtenPaths) = {}
    /\ unremovable \subseteq DOMAIN fs \cup DeletedByOthers
    /\ (clPc = "done" /\ tree0 = NoDirectory) => deletedCount = 0
    /\ clPc = "done" =>
          /\ sortedPaths = <<>>
          /\ \A p \in DOMAIN tree0 :
                (tree0[p].kind = "file" /\ p \notin writtenPaths \cup unremovable) => ~Exists(fs, p)

\* A finished sweep in which the delete of one file failed and a file handled after it
\* was deleted.
C21_Witness ==
    /\ clPc = "done"
    /\ \E p \in unremovable :
          /\ IsFile(fs, p)
          /\ p \notin writtenPaths
          /\ \E q \in Range(deletedLog) : Len(q) < Len(p)
    /\ deletedCount >= 1

(***************************************************************************)
(* Claims about readCollectionFiles                                        *)
(***************************************************************************)

ReadDone == readResult # NoResult

ReadReturned == ReadDone /\ readResult.error = None

\* The place of a name in the enumeration of its directory.
NameIndex(n) == CHOOSE i \in 1..Len(NameOrder) : NameOrder[i] = n

HasOrder(doc) == "order" \in DOMAIN doc.metadata

\* The pairs of positions i < j of the result that hold two document files, other than
\* index.md, of the same directory.
SiblingPairs ==
    {ij \in (1..Len(readResult.docs)) \X (1..Len(readResult.docs)) :
        /\ ij[1] < ij[2]
        /\ Front(readResult.docs[ij[1]].relativePath) = Front(readResult.docs[ij[2]].relativePath)
        /\ Last(readResult.docs[ij[1]].relativePath) # "index.md"
        /\ Last(readResult.docs[ij[2]].relativePath) # "index.md"}

\* The sidebar.order a document is sorted by: a document without one is sorted as if
\* it had order 0.
EffectiveOrder(doc) == IF HasOrder(doc) THEN doc.metadata.order ELSE 0

RunStarts == {i \in 1..Len(readResult.docs) : readResult.docs[i].relativeIndex = 0}

RunFrom(start) ==
    {i \in start..Len(readResult.docs) : \A j \in (start + 1)..i : j \notin RunStarts}

\* The immediate documents of directory D: its .md files, its own index.md among them
\* only when the walk came to D without a parent reference (D is the root, or the
\* outlineId of its index.md is the empty string), and the index.md of each of its
\* subdirectories.
ImmediatePaths(D) ==
    {Join(D, n) : n \in {m \in Range(Readdir(fs, D)) :
        /\ IsMdName(m) /\ IsFile(fs, Join(D, m))
        /\ m = "index.md" => (D = Root \/ Field(fs[Join(D, m)].data, "outlineId") = "")}}
    \cup {Join(Join(D, n), "index.md") : n \in {m \in Range(Readdir(fs, D)) :
              IsDir(fs, Join(D, m)) /\ IsFile(fs, Join(Join(D, m), "index.md"))}}

DocumentFiles == {p \in DOMAIN fs : IsFile(fs, p) /\ IsMdName(Last(p))}

ReturnedAt(p) == {i \in 1..Len(readResult.docs) : readResult.docs[i].relativePath = p}

\* C25: a subdirectory without index.md is skipped silently only when it contains no
\* document file at any depth beneath it; if a .md file exists anywhere inside it,
\* readCollectionFiles fails, so that no document file is ever silently left out of the
\* result.
C25_NoDocumentLeftOut ==
    ReadReturned =>
        /\ \A D \in Range(readResult.walked) : \A n \in Range(Readdir(fs, D)) :
              (IsDir(fs, Join(D, n)) /\ ~IsFile(fs, Join(Join(D, n), "index.md")))
                  => \A p \in DocumentFiles : ~IsProperPrefix(Join(D, n), p)
        /\ \A p \in DocumentFiles : ReturnedAt(p) # {}

\* The parent reference with which the walk came to directory D, and the runs of the
\* result that hold the immediate documents of D.
CallParent(D) ==
    IF D = Root THEN None
    ELSE ParentReference(readResult.docs[CHOOSE k \in ReturnedAt(Join(D, "index.md")) : TRUE])

RunsOf(D) ==
    {start \in RunStarts :
        /\ {readResult.docs[i].relativePath : i \in RunFrom(start)} = ImmediatePaths(D)
        /\ \A i \in RunFrom(start) : readResult.docs[i].parentDocumentId = CallParent(D)}

\* C26: in the list returned by readCollectionFiles every document whose parentDocumentId
\* refers to an index.md (by remote ID or by file path) comes after that index.md's own
\* document, and all immediate documents of a directory come before any document found
\* inside its subdirectories.
C26_ParentsFirst ==
    ReadReturned =>
        /\ \A i \in 1..Len(readResult.docs) : \A j \in 1..Len(readResult.docs) :
              (/\ Truthy(readResult.docs[i].parentDocumentId)
               /\ Last(readResult.docs[j].relativePath) = "index.md"
               /\ readResult.docs[i].parentDocumentId \in
                     {readResult.docs[j].filePath, Field(readResult.docs[j].metadata, "outlineId")})
                  => j < i
        /\ \A D \in Range(readResult.walked) : \A E \in Range(readResult.walked) :
              IsProperPrefix(D, E) =>
                  \A s \in RunsOf(D) : \A t \in RunsOf(E) :
                      \A i \in RunFrom(s) : \A j \in RunFrom(t) : i < j

\* A result of three levels: the index.md of d, behind it the documents of d with the
\* index.md of d/e, and behind them a document of d/e that refers to that index.md.
C26_Witness ==
    /\ ReadReturned
    /\ \E i, j, k \in 1..Len(readResult.docs) :
          /\ i < j /\ j < k
          /\ readResult.docs[i].relativePath = <<"d", "index.md">>
          /\ readResult.docs[j].relativePath = <<"d", "e", "index.md">>
          /\ readResult.docs[j].parentDocumentId = "doc-d"
          /\ readResult.docs[k].relativePath = <<"d", "e", "c.md">>
          /\ readResult.docs[k].parentDocumentId = readResult.docs[j].filePath
          /\ \E m \in (i + 1)..(k - 1) : readResult.docs[m].relativePath = <<"d", "a.md">>

\* C28: readCollectionFiles returns each .md file of the walked tree exactly once, whatever
\* its front matter: a subdirectory's index.md is never returned both as that directory's
\* parent document and again as one of its children, including when its outlineId is
\* missing or is an empty string.
C28_EachFileOnce ==
    ReadReturned =>
        \A D \in Range(readResult.walked) : \A p \in DocumentFiles :
            Front(p) = D => Cardinality(ReturnedAt(p)) = 1

\* The walked directories that hold a document file other than index.md and no index.md.
DirectoriesLackingIndex ==
    {D \in Range(readResult.walked) :
        /\ ~IsFile(fs, Join(D, "index.md"))
        /\ \E n \in Range(Readdir(fs, D)) :
              IsMdName(n) /\ n # "index.md" /\ IsFile(fs, Join(D, n))}

DirectoriesWithIndex == {D \in Range(readResult.walked) : IsFile(fs, Join(D, "index.md"))}

\* The document files of directory D other than its index.md.
OtherDocumentFiles(D) ==
    {Join(D, n) : n \in {m \in Range(Readdir(fs, D)) :
                            IsMdName(m) /\ m # "index.md" /\ IsFile(fs, Join(D, m))}}

\* What the claim expects as the parent of the files next to index.md in D: the
\* outlineId written in that index.md or, when none is written, the path of that index.md.
ExpectedParent(D) ==
    LET data == fs[Join(D, "index.md")].data
    IN  IF "outlineId" \in DOMAIN data THEN data.outlineId ELSE PathStr(D) \o "/index.md"

ReturnedWithParent(D) ==
    \A p \in OtherDocumentFiles(D) :
        /\ \E i \in 1..Len(readResult.docs) : readResult.docs[i].relativePath = p
        /\ \A i \in 1..Len(readResult.docs) :
              readResult.docs[i].relativePath = p
                  => readResult.docs[i].parentDocumentId = ExpectedParent(D)

CreateCalls == {c \in upCalls : c.api = "createDocument"}

\* File j of the list is the parent of file i: i's parentDocumentId is what the reader
\* derived from j, the index.md of i's directory.
IsParentOf(j, i) ==
    /\ Last(upFiles[j].relativePath) = "index.md"
    /\ Truthy(upFiles[i].parentDocumentId)
    /\ upFiles[i].parentDocumentId \in
          {upFiles[j].filePath, Field(upFiles[j].metadata, "outlineId")}

\* C2: in an upload pass over a list in which a parent without a remote ID precedes its
\* child, and the child's parentDocumentId is the parent's local file path, the child's
\* createDocument is called with parentDocumentId equal to the remote ID returned by the
\* parent's createDocument in this pass, never with the local path.
C2_ChildCreatedUnderNewParent ==
    \A c \in CreateCalls :
        c.pass = upPass =>
            \A j \in 1..(c.file - 1) :
                (/\ ~Truthy(Field(upFiles[j].metadata, "outlineId"))
                 /\ upFiles[c.file].parentDocumentId = upFiles[j].filePath)
                    => \E r \in upCreated :
                          /\ r.pass = c.pass
                          /\ r.path = upFiles[j].relativePath
                          /\ c.parentDocumentId = r.id

\* C3: under every interleaving the limiter allows, the create or update of a parent has
\* completed, and its remote ID is recorded, before the task of any of its direct
\* children starts; a parent and its child are never in progress together.
C3_ParentSettledBeforeChild ==
    upPhase = "running" =>
        \A i \in 1..Len(upFiles) : \A j \in 1..Len(upFiles) :
            (IsParentOf(j, i) /\ upPc[i] # "queued") => upPc[j] \in Settled

\* C4: a document created by one upload pass is not created again by a later pass: once
\* the pass is over the remote ID returned by createDocument is in the front matter of
\* the local file, and no later pass calls createDocument for that file.
C4_CreatedOnce ==
    /\ upPhase = "finished" =>
          \A r \in upCreated : Field(fs[r.path].data, "outlineId") = r.id
    /\ \A c \in CreateCalls :
          ~\E r \in upCreated : r.pass < c.pass /\ r.path = upFiles[c.file].relativePath

FilesIn(states) == {i \in 1..Len(upPc) : upPc[i] \in states}

HasRemoteId(i) == Truthy(Field(upFiles[i].metadata, "outlineId"))

\* C12: in an upload pass the failure of one document's upload does not stop the others.
\* When the pass is over, the documents handled are those readCollectionFiles returns,
\* every one of them has reached an outcome and was counted once; during the pass a
\* document that was started is never started again and an outcome never changes.
C12_FailureIsolated ==
    /\ [](upPhase = "finished" =>
            /\ upFiles = readCollectionFiles(fs).docs
            /\ FilesIn(Settled) = 1..Len(upFiles)
            /\ upCounts.errorCount = Cardinality(FilesIn({"failed"}))
            /\ upCounts.uploadedCount + upCounts.updatedCount + upCounts.skippedCount
                  = Cardinality(FilesIn({"created", "updated", "skipped"})))
    /\ [][upPass' = upPass =>
            \A i \in 1..Len(upPc) :
               /\ upPc[i] # "queued" => upPc'[i] # "queued"
               /\ upPc[i] \in Settled => upPc'[i] = upPc[i]]_vars

\* A finished pass in which a document failed and documents before and after it in the
\* list were created, updated or skipped.
C12_Witness ==
    /\ upPhase = "finished"
    /\ \E j \in FilesIn({"failed"}) :
          /\ \E i \in FilesIn({"created", "updated", "skipped"}) : i < j
          /\ \E k \in FilesIn({"created", "updated"}) : j < k

\* C13: if at least one document of a collection fails during an upload pass, the pass
\* is reported as failed: uploadCommand does not complete as successful.
C13_FailedPassRejects == upPhase = "finished" => upCounts.errorCount = 0

\* C20: with updateOnly set an upload pass issues no createDocument call at all: every
\* document without a remote ID is classified as skipped.
C20_UpdateOnlyCreatesNothing ==
    updateOnly =>
        /\ CreateCalls = {}
        /\ upCreated = {}
        /\ \A i \in 1..Len(upPc) : (~HasRemoteId(i) /\ upPc[i] # "queued") => upPc[i] = "skipped"
        /\ upPhase = "finished" =>
              upCounts.skippedCount >= Cardinality({i \in 1..Len(upPc) : ~HasRemoteId(i)})

\* A finished pass with updateOnly set that skipped a document without a remote ID and
\* updated one that has a remote ID.
C20_Witness ==
    /\ updateOnly
    /\ upPhase = "finished"
    /\ \E i \in FilesIn({"skipped"}) : ~HasRemoteId(i)
    /\ \E j \in FilesIn({"updated"}) : HasRemoteId(j)

\* The body without the white space at its ends.
TrimmedBody(text) == CASE text = "x " -> "x" [] OTHER -> text

UpdateCallsOf(calls, pass, i) == {c \in calls : c.api = "updateDocument" /\ c.pass = pass /\ c.file = i}

BodyDiffers(i) ==
    TrimmedBody(remote[upFiles[i].metadata.outlineId].text) # TrimmedBody(upFiles[i].content)

\* C18: for a document that has a remote ID, upload issues updateDocument if and only if
\* the local body differs from the fetched remote body after trimming both; when the
\* trimmed bodies are equal no update is issued and the document is classified as
\* skipped.
C18_UpdateIffBodyDiffers ==
    [][upPass' = upPass =>
         \A i \in 1..Len(upPc) :
            /\ (upPc[i] = "get" /\ upPc'[i] \notin {"get", "failed"}) =>
                  IF BodyDiffers(i)
                  THEN upPc'[i] = "update" /\ UpdateCallsOf(upCalls', upPass, i) # {}
                  ELSE /\ upPc'[i] = "skipped"
                       /\ UpdateCallsOf(upCalls', upPass, i) = {}
                       /\ upCounts'.skippedCount = upCounts.skippedCount + 1
            /\ UpdateCallsOf(upCalls', upPass, i) # UpdateCallsOf(upCalls, upPass, i) =>
                  upPc[i] = "get" /\ HasRemoteId(i) /\ BodyDiffers(i)]_vars

\* A finished pass skipped a document whose remote body differs from the local one only
\* by white space at its end: no updateDocument was issued for it.
C18_Witness ==
    /\ upPhase = "finished"
    /\ \E j \in FilesIn({"skipped"}) :
          /\ HasRemoteId(j)
          /\ upFiles[j].metadata.outlineId \in DOMAIN remote
          /\ remote[upFiles[j].metadata.outlineId].text # upFiles[j].content
          /\ UpdateCallsOf(upCalls, upPass, j) = {}

\* C19: for a document that has a remote ID, whenever the fetched remote document's
\* parent differs from the locally intended parent, upload issues moveDocument for it,
\* even when the body is unchanged.
C19_MoveWhenParentDiffers ==
    \A i \in FilesIn({"update", "updated", "skipped"}) :
        (/\ HasRemoteId(i)
         /\ upFiles[i].metadata.outlineId \in DOMAIN remote
         /\ remote[upFiles[i].metadata.outlineId].parentDocumentId # upFiles[i].parentDocumentId)
            => \E c \in upCalls : c.api = "moveDocument" /\ c.pass = upPass /\ c.file = i

\* C22: at every moment at most 10 getDocument calls issued while building document
\* hierarchies are in flight, whatever the shape or depth of the trees, and at most 10
\* uploadFile operations of the upload path are in flight.
C22_AtMostTenInFlight ==
    /\ Cardinality(InFlight) <= 10
    /\ ActiveCount <= 10

\* Ten getDocument calls are in flight while an eleventh waits in the queue, below the
\* top level of the structure.
C22_Witness ==
    /\ Cardinality(InFlight) = 10
    /\ ftQueue # <<>>
    /\ ftParent[Head(ftQueue)] # 0

\* Ten uploadFile operations are in flight while further files wait in the queue.
C22_WitnessUpload == ActiveCount = 10 /\ Queued # {}

(***************************************************************************)
(* Claims about writeDocumentFile                                          *)
(***************************************************************************)

\* C5: writing a (body, metadata) pair whose serialized content equals the bytes already
\* in the target file issues no write: in no step does a file that keeps its bytes get
\* a new mtime.
C5_IdempotentWrite ==
    [][\A p \in DOMAIN fs \cap DOMAIN fs' :
          (fs[p].kind = "file" /\ fs'[p].kind = "file" /\ Bytes(fs'[p]) = Bytes(fs[p]))
              => fs'[p].mtime = fs[p].mtime]_vars

(***************************************************************************)
(* Claims about the download                                               *)
(***************************************************************************)

\* The documents of a hierarchy, parents before children, each with the id of its
\* parent (None at the top level).
RECURSIVE Flatten(_, _)
Flatten(docs, parentId) ==
    IF docs = <<>> THEN <<>>
    ELSE <<[id |-> Head(docs).id, title |-> Head(docs).title, parent |-> parentId,
            description |-> Head(docs).description]>>
            \o Flatten(Head(docs).children, Head(docs).id)
            \o Flatten(Tail(docs), parentId)

RemoteList == Flatten(remoteDocs, None)

\* The siblings of the hierarchy have pairwise distinct title slugs.
DistinctSiblingSlugs ==
    \A i \in 1..Len(RemoteList) : \A j \in 1..Len(RemoteList) :
        (i # j /\ RemoteList[i].parent = RemoteList[j].parent)
            => createSafeFilename(RemoteList[i].title) # createSafeFilename(RemoteList[j].title)

\* The positions of the result that hold the document with the given remote ID.
PositionsOf(id) ==
    {i \in 1..Len(readResult.docs) : Field(readResult.docs[i].metadata, "outlineId") = id}

\* C9: after a successful download, metadata enabled, of a remote hierarchy whose siblings
\* have pairwise distinct title slugs into an empty directory, readCollectionFiles
\* returns exactly one document per remote document, carrying its remote ID, with
\* parentDocumentId equal to the remote parent's ID (none at the top level) and with the
\* children of each parent in their remote order.
C9_DownloadReadRoundTrip ==
    (/\ dlPc = "done"
     /\ ReadDone
     /\ tree0 = (Root :> DirNode)
     /\ includeMetadata
     /\ DistinctSiblingSlugs)
        => /\ readResult.error = None
           /\ Len(readResult.docs) = Len(RemoteList)
           /\ \A r \in 1..Len(RemoteList) :
                 /\ Cardinality(PositionsOf(RemoteList[r].id)) = 1
                 /\ \A i \in PositionsOf(RemoteList[r].id) :
                       readResult.docs[i].parentDocumentId = RemoteList[r].parent
           /\ \A r \in 1..Len(RemoteList) : \A q \in 1..Len(RemoteList) :
                 (r < q /\ RemoteList[r].parent = RemoteList[q].parent)
                     => \A i \in PositionsOf(RemoteList[r].id) : \A j \in PositionsOf(RemoteList[q].id) : i < j

\* The files of the documents written by the pass so far.
WrittenFiles == {dlCalls[k].filePath : k \in 1..Len(dlCalls)}

\* C14: if a remote fetch or a file write fails for a document during a collection's
\* download, the pass stops there: the error is surfaced to the caller, no further
\* document of the collection is written, the files already written in this pass stay
\* on disk, and the cleanup sweep is not run.
C14_FailureStopsThePass ==
    /\ [](dlPc = "failed" =>
            /\ clPc = "idle" /\ deletedCount = 0 /\ deletedLog = <<>>
            /\ Len(dlCalls) = dlWritten
            /\ \A p \in WrittenFiles \cup writtenPaths \cup DOMAIN tree0 : Exists(fs, p)
            /\ \A p \in WrittenFiles : IsFile(fs, p))
    /\ [][dlPc = "failed" => (dlPc' = "failed" /\ fs' = fs /\ dlCalls' = dlCalls)]_vars

\* A pass failed after it had written a document and before it wrote the next one, with
\* the cleanup sweep enabled.
C14_Witness ==
    /\ dlPc = "failed"
    /\ cleanupAfterDownload
    /\ Len(dlCalls) >= 1
    /\ dlWork # <<>>
    /\ WrittenFiles \cap DOMAIN tree0 = {}
    /\ DOMAIN tree0 # {Root}

\* C15: during one collection download sidebar.order is taken from a single counter that
\* starts at 1, is shared by the whole traversal and grows by one per written document
\* in remote pre-order: the k-th document written is the k-th of the remote pre-order
\* and gets the order k, and a pass over N documents writes exactly the orders 1..N.
C15_SharedOrderCounter ==
    /\ Len(dlCalls) <= Len(RemoteList)
    /\ \A k \in 1..Len(dlCalls) :
          /\ dlCalls[k].id = RemoteList[k].id
          /\ includeMetadata => The(dlCalls[k].metadata).order = k
    /\ dlPc \in {"writing", "cleanup", "done"} => orderCounter = Len(dlCalls) + 1
    /\ dlPc \in {"cleanup", "done"} => Len(dlCalls) = Len(RemoteList)

\* A finished pass over five documents at three levels.
C15_Witness ==
    /\ dlPc = "done"
    /\ includeMetadata
    /\ Len(dlCalls) = 5
    /\ \E k \in 1..5 : Len(dlCalls[k].outputDir) = 2
    /\ The(dlCalls[5].metadata).order = 5 /\ dlCalls[5].outputDir = Root

\* The order written for the document with the given remote ID.
OrderWritten(id) ==
    The(dlCalls[CHOOSE k \in 1..Len(dlCalls) : dlCalls[k].id = id].metadata).order

\* The pairs of documents of one level, the first before the second in remote order.
SiblingsInRemoteOrder ==
    {rq \in (1..Len(RemoteList)) \X (1..Len(RemoteList)) :
        rq[1] < rq[2] /\ RemoteList[rq[1]].parent = RemoteList[rq[2]].parent}

\* C16, as the code has it: after a download pass, within every level the sidebar.order
\* values assigned to the documents of that level are at least 1 and increase in remote
\* fetch order.
C16_LevelOrdersIncrease ==
    (dlPc = "done" /\ includeMetadata) =>
        /\ \A r \in 1..Len(RemoteList) : OrderWritten(RemoteList[r].id) >= 1
        /\ \A rq \in SiblingsInRemoteOrder :
              OrderWritten(RemoteList[rq[1]].id) < OrderWritten(RemoteList[rq[2]].id)

\* A finished pass in which two neighbours of one level got orders that are not
\* consecutive, and the first document of a lower level an order above 1.
C16_Witness ==
    /\ dlPc = "done"
    /\ includeMetadata
    /\ \E rq \in SiblingsInRemoteOrder :
          /\ ~\E m \in 1..Len(RemoteList) :
                 rq[1] < m /\ m < rq[2] /\ RemoteList[m].parent = RemoteList[rq[1]].parent
          /\ OrderWritten(RemoteList[rq[2]].id) > OrderWritten(RemoteList[rq[1]].id) + 1
    /\ \E r \in 1..Len(RemoteList) : RemoteList[r].parent # None /\ OrderWritten(RemoteList[r].id) > 1

\* C16: after a download pass, within every directory level the sidebar.order values
\* assigned to the documents of that level are dense and 1-based (1..k for k documents
\* at that level), in remote fetch order.
C16_LevelOrdersDense ==
    (dlPc = "done" /\ includeMetadata) =>
        \A r \in 1..Len(RemoteList) :
            OrderWritten(RemoteList[r].id)
              = 1 + Cardinality({q \in 1..(r - 1) : RemoteList[q].parent = RemoteList[r].parent})

\* The files that carried the given remote ID before the pass.
LocalFilesOf(id) ==
    {p \in DOMAIN tree0 : tree0[p].kind = "file" /\ Field(tree0[p].data, "outlineId") = id}

\* The description recorded before the pass in the local file of the given remote ID.
LocalDescription(id) ==
    IF LocalFilesOf(id) = {} THEN None
    ELSE Field(tree0[CHOOSE p \in LocalFilesOf(id) : TRUE].data, "description")

DescriptionWritten(k) == Field(The(dlCalls[k].metadata), "description")

C27_WrittenPathsSurvive ==
    (dlPc = "done" /\ cleanupAfterDownload) =>
        \A k \in 1..Len(dlCalls) :
            /\ IsFile(fs, dlCalls[k].filePath)
            /\ IsDir(fs, Dirname(dlCalls[k].filePath))
            /\ \A p \in dlCalls[k].images :
                  IF Last(p) = "images" THEN IsDir(fs, p) ELSE IsFile(fs, p)
            /\ \A i \in 1..Len(deletedLog) :
                  deletedLog[i] \notin dlCalls[k].images \cup {dlCalls[k].filePath, Dirname(dlCalls[k].filePath)}

\* A finished pass with cleanup whose sweep deleted the image of an attachment that is
\* gone, after the pass had reused an image of the earlier download for one document,
\* downloaded an image for another and written a document into a directory of its own.
C27_Witness ==
    /\ dlPc = "done"
    /\ cleanupAfterDownload
    /\ \E i \in 1..Len(deletedLog) : deletedLog[i] = <<"images", "old.png">>
    /\ \E k \in 1..Len(dlCalls) : <<"images", "att-123.gif">> \in dlCalls[k].images
    /\ \E k \in 1..Len(dlCalls) : Len(dlCalls[k].filePath) >= 2

\* A finished pass with cleanup that downloaded the image of a document written into a
\* new directory.
C27_WitnessDownloaded ==
    /\ dlPc = "done"
    /\ cleanupAfterDownload
    /\ deletedCount > 0
    /\ \E k \in 1..Len(dlCalls) : <<"guide", "images", "att-123.png">> \in dlCalls[k].images

\* C30: when a download pass writes nothing because the remote collection has no
\* documents, the cleanup sweep is not run, so every file and directory already present
\* in the output directory is left untouched.
C30_EmptyRemoteLeavesTree ==
    (remoteDocs = <<>> /\ dlPc \in {"writing", "cleanup", "done"}) =>
        /\ dlPc # "cleanup"
        /\ clPc = "idle"
        /\ deletedCount = 0
        /\ fs = tree0

\* A finished pass over an empty remote collection, with cleanup enabled, in an output
\* directory that held the files of an earlier download.
C30_Witness ==
    /\ dlPc = "done"
    /\ remoteDocs = <<>>
    /\ cleanupAfterDownload
    /\ writtenPaths = {}
    /\ <<"guide.md">> \in DOMAIN fs

(***************************************************************************)
(* Claims about the image references                                       *)
(***************************************************************************)

AttachmentsOfBody == {atBody[i] : i \in {j \in 1..Len(atBody) : atBody[j].kind = "attachment"}}

\* The case the amended claim covers: the body has no image with a path of its own, and
\* every attachment in it has a version 4 UUID as its id, a caption without $, no
\* annotations or a size after a blank, and is stored as images/<id>.<ext> in the
\* directory of the document.
RoundTripCase ==
    /\ \A i \in 1..Len(atBody) : atBody[i].kind # "image"
    /\ atLocalPaths = "byId"
    /\ \A piece \in AttachmentsOfBody :
          /\ piece.id = UuidA
          /\ piece.caption = "Cap"
          /\ piece.annotations \in {"", " =300x200"}

ChangedByCall == {p \in DOMAIN fs : p \notin DOMAIN tree0 \/ fs[p] # tree0[p]}

ToolRejected == mcpResult.tool # "none" /\ mcpResult.error # None

\* The file the last call was aimed at, when its URI names a collection.
TargetOfCall ==
    {JoinSegments(c.outputDirectory, mcpResult.documentUri.documentPath) :
        c \in FindCollection(mcpResult.documentUri.collectionKey)}

\* C24: whenever mcpCreateDocument, mcpEditDocument or mcpInlineEdit rejects (unknown
\* collection key, read-only collection, target document missing for an edit or already
\* existing for a create, or an inline-edit command whose match count differs from its
\* expected count, even after earlier commands of the same call matched), no file on
\* disk has been created or modified by that call.
C24_RejectionWritesNothing ==
    ToolRejected => (fs = tree0 /\ ChangedByCall = {} /\ DOMAIN fs = DOMAIN tree0)

\* An inline edit of an existing document of the writable collection was rejected at
\* its second command, after its first command had matched as often as expected.
C24_Witness ==
    /\ ToolRejected
    /\ mcpResult.tool = "inline-edit"
    /\ Len(mcpResult.commands) = 2
    /\ \E target \in TargetOfCall :
          /\ IsFile(tree0, target)
          /\ "title" \in DOMAIN tree0[target].data
          /\ ApplyCommands(tree0[target].body, <<mcpResult.commands[1]>>).error = None
          /\ ApplyCommands(tree0[target].body, <<mcpResult.commands[1]>>).content # tree0[target].body
          /\ ApplyCommands(tree0[target].body, mcpResult.commands).error # None

\* Calls of the three tools were rejected for each of the other reasons.
C24_WitnessCreate ==
    /\ ToolRejected
    /\ mcpResult.tool = "create-document"
    /\ mcpResult.error = "Document already exists at path 'a.md'"

\* C29: mcpCreateDocument, mcpEditDocument and mcpInlineEdit only ever write a file
\* located inside the output directory of the collection named by the URI's collection
\* key: no document path, including one containing '..' segments, makes them write into
\* another collection's directory, in particular not into a read-only collection.
C29_WritesStayInCollection ==
    \A p \in ChangedByCall :
        \E c \in FindCollection(mcpResult.documentUri.collectionKey) :
            /\ IsProperPrefix(c.outputDirectory, p)
            /\ \A i \in 1..Len(Collections) :
                  (Collections[i].readOnly /\ IsPrefix(Collections[i].outputDirectory, p))
                      => Collections[i] = c

====
